---- MODULE Spec2Model ----
(***************************************************************************)
(* A model of slothfs: the single-flight blob fetch of a gitilesRoot, the  *)
(* LazyRepo background clone, the multi-manifest configuration plane, the  *)
(* per-project clone flag and the populate engine.                         *)
(***************************************************************************)
EXTENDS Integers, Sequences, FiniteSets, TLC

(***************************************************************************)
(* Part 1.  Blob fetching (fs/gitilesfs.go) and LazyRepo (cache).          *)
(***************************************************************************)

\* Number of concurrent readers (FUSE read/open requests) of the model.
NumReaders == 2

Readers == 1 .. NumReaders

\* The gitilesRoot instances of the process.  r1 and r2 are the roots of the
\* same project mounted in two workspaces.
Roots == {"r1", "r2"}

\* opts.CloneURL of each root.
RootURL == [r \in Roots |-> "u1"]

\* The gitilesNodes that can be read: the root that created the node, the
\* blob ID and the clone hint.  Blob h1 occurs in r1 and in r2 as two nodes
\* (its execute bit differs between the two revisions).
Files ==
    { [root |-> "r1", id |-> "h1", clone |-> TRUE],
      [root |-> "r2", id |-> "h1", clone |-> TRUE],
      [root |-> "r1", id |-> "h2", clone |-> FALSE] }

Hashes == {f.id : f \in Files}

URLs == {RootURL[r] : r \in Roots}

NoFile == [root |-> "none", id |-> "none", clone |-> FALSE]

VARIABLES
    \* --- readers: position in openFile/fetchFile/fetchFileExpensive ---
    pc,          \* reader -> program position
    rfile,       \* reader -> the node being read
    rres,        \* reader -> "none" | "ok" | "err": result of openFile
    \* --- cache.Blob (CAS) ---
    blob,        \* set of hashes stored in the CAS
    \* --- gitilesRoot ---
    fetching,    \* root -> set of hashes (r.fetching)
    fetchingL,   \* root -> holder of r.fetchingCond.L (0: free)
    \* --- LazyRepo of each root, and the gitCache directory ---
    lazy,        \* root -> [url, cloning, repo, mu]
    runClones,   \* root -> sequence of running runClone goroutines (phases)
    gitDir,      \* set of URLs whose bare repository exists on disk
    \* --- history of the fetches (for stating the properties) ---
    hist,        \* [gets, err, local, writers, waited, coalesced, refused]
    \* --- multiManifestFSRoot: the inode tree and the configuration plane ---
    rootCh,      \* workspaces under the mount root: name -> inode tree
    configCh,    \* children of config/: name -> readlink value
    nodes,       \* the gitilesNodes created so far
    nodeMap,     \* nodeCache.nodeMap: <<ID, xbit>> -> node (0: none)
    manifestDir, \* options.ManifestDir: name -> manifest bytes ("": none)
    cmds,        \* the configNode.Symlink calls, running and returned
    kcache,      \* the names under / in the dentry cache of the kernel
    boot,        \* restarts so far, workspaces mounted before the last one
    \* --- the clone flag of a project (manifestFSRoot.onMount) ---
    cfIn,        \* the project and the Repo rules
    cfOut,       \* << >>, or << the clone flag computed for it >>
    \* --- populate: the mount, the R/W directory and the Checkout calls ---
    snapshot,    \* workspace -> repository -> SHA1 of its file ("-": no repo)
    mounted,     \* the workspaces that exist under the mount
    rwRepos,     \* the repositories checked out in the R/W directory
    links,       \* the symlinks of the R/W directory into the mount
    runs,        \* the Checkout calls so far: [ro, err, added, changed]
    rwFiles,     \* what else the R/W directory holds: [at, kind, target, dir]
    outside,     \* the paths outside the R/W directory that were written
    \* --- the modification time of the gitilesNodes ---
    mtime,       \* node -> n.mtime, as the two words [wall, ext]
    mtimeMu,     \* node -> holder of n.mtimeMu ("": free)
    calls,       \* caller -> its Utimens or GetAttr call
    lastSet,     \* node -> the mtime of the last Utimens that returned
    lin,         \* node -> the linearizations the calls so far allow
    \* --- the content addressable storage on disk (cache.CAS) ---
    casDir,      \* hash -> the file at CAS.path(hash) (0: no such file)
    casInodes,   \* the files created so far -> the chunks they hold
    casW,        \* writer -> its CAS.Write call
    casR,        \* reader -> its CAS.Open call and the read of the file
    \* --- the copyfiles of a workspace and the attributes of its nodes ---
    cpTodo,      \* the Copyfile directives onMount has not applied yet
    cpDone,      \* the Copyfile directives onMount has applied
    cpTree,      \* the inode tree of the workspace
    cpErr,       \* the error onMount returned ("": none)
    cpNodes,     \* gitilesNode -> [mode, size, id, mtime]
    cpLast,      \* the last setattr request and its status
    \* --- the location of a repository in the git cache ---
    gpIn,        \* the two clone URLs, as they were put together
    gpOut,       \* the paths gitPath gave for them (<< >>: not called yet)
    \* --- the tree cache on disk (cache.TreeCache) ---
    tcDir,       \* hash -> the bytes of the file at TreeCache.path(hash)
    tcCalls,     \* caller -> its TreeCache.Add call
    tcGot,       \* the last TreeCache.Get call and its result
    \* --- the parallel traversals of Checkout ---
    ckTrav,      \* traversal -> [pc, fills, errs, got]
    ckErrs,      \* the channel errs of Checkout
    ckMain,      \* Checkout itself: [pc, i, err]
    \* --- the fetch of the trees of a manifest (fetchTreeMap) ---
    ftCache,     \* revision -> the tree in the tree cache (NoTree: none)
    ftPc,        \* project -> position of its goroutine in fetchTreeMap
    ftRes,       \* project -> the resultT it sent: [resp, err]
    ftMount,     \* "none", or how the mount of the workspace ended
    \* --- the names under the mount root, the name "config" included ---
    rnRoot,      \* name -> the child of the root inode under that name
    rnConfig,    \* the names of the children of the configNode
    rnCmds,      \* name -> the command of config/ on it: [op, pc, status]
    \* --- the mount of a manifest with nested projects ---
    nsManifest,  \* the projects of the manifest (names)
    nsTodo,      \* the projects onMount has not attached, in its order
    nsTree,      \* the inode tree of the workspace; data: the project
    nsMount      \* [pc, order, files]: position, projects attached, files left

fetchVars ==
    << pc, rfile, rres, blob, fetching, fetchingL, lazy, runClones, gitDir,
       hist >>

multiVars ==
    << rootCh, configCh, nodes, nodeMap, manifestDir, cmds, kcache,
      boot >>

cloneFlagVars == << cfIn, cfOut >>

populateVars == << snapshot, mounted, rwRepos, links, runs, rwFiles, outside >>

mtimeVars == << mtime, mtimeMu, calls, lastSet, lin >>

casVars == << casDir, casInodes, casW, casR >>

copyVars == << cpTodo, cpDone, cpTree, cpErr, cpNodes, cpLast >>

gitPathVars == << gpIn, gpOut >>

treeCacheVars == << tcDir, tcCalls, tcGot >>

travVars == << ckTrav, ckErrs, ckMain >>

treeFetchVars == << ftCache, ftPc, ftRes, ftMount >>

rootNamesVars == << rnRoot, rnConfig, rnCmds >>

nestedVars == << nsManifest, nsTodo, nsTree, nsMount >>

vars ==
    << fetchVars, multiVars, cloneFlagVars, populateVars, mtimeVars, casVars,
       copyVars, gitPathVars, treeCacheVars, travVars, treeFetchVars,
       rootNamesVars, nestedVars >>

\* The variables of the other parts of the model.
notFetchVars ==
    << multiVars, cloneFlagVars, populateVars, mtimeVars, casVars, copyVars,
       gitPathVars, treeCacheVars, travVars, treeFetchVars, rootNamesVars,
       nestedVars >>

notMultiVars ==
    << fetchVars, cloneFlagVars, populateVars, mtimeVars, casVars, copyVars,
       gitPathVars, treeCacheVars, travVars, treeFetchVars, rootNamesVars,
       nestedVars >>

notCloneFlagVars ==
    << fetchVars, multiVars, populateVars, mtimeVars, casVars, copyVars,
       gitPathVars, treeCacheVars, travVars, treeFetchVars, rootNamesVars,
       nestedVars >>

notPopulateVars ==
    << fetchVars, multiVars, cloneFlagVars, mtimeVars, casVars, copyVars,
       gitPathVars, treeCacheVars, travVars, treeFetchVars, rootNamesVars,
       nestedVars >>

notMtimeVars ==
    << fetchVars, multiVars, cloneFlagVars, populateVars, casVars, copyVars,
       gitPathVars, treeCacheVars, travVars, treeFetchVars, rootNamesVars,
       nestedVars >>

notCasVars ==
    << fetchVars, multiVars, cloneFlagVars, populateVars, mtimeVars,
       copyVars, gitPathVars, treeCacheVars, travVars, treeFetchVars,
       rootNamesVars, nestedVars >>

notCopyVars ==
    << fetchVars, multiVars, cloneFlagVars, populateVars, mtimeVars, casVars,
       gitPathVars, treeCacheVars, travVars, treeFetchVars, rootNamesVars,
       nestedVars >>

notGitPathVars ==
    << fetchVars, multiVars, cloneFlagVars, populateVars, mtimeVars, casVars,
       copyVars, treeCacheVars, travVars, treeFetchVars, rootNamesVars,
       nestedVars >>

notTreeCacheVars ==
    << fetchVars, multiVars, cloneFlagVars, populateVars, mtimeVars, casVars,
       copyVars, gitPathVars, travVars, treeFetchVars, rootNamesVars,
       nestedVars >>

notTravVars ==
    << fetchVars, multiVars, cloneFlagVars, populateVars, mtimeVars, casVars,
       copyVars, gitPathVars, treeCacheVars, treeFetchVars, rootNamesVars,
       nestedVars >>

notTreeFetchVars ==
    << fetchVars, multiVars, cloneFlagVars, populateVars, mtimeVars, casVars,
       copyVars, gitPathVars, treeCacheVars, travVars, rootNamesVars,
       nestedVars >>

notRootNamesVars ==
    << fetchVars, multiVars, cloneFlagVars, populateVars, mtimeVars, casVars,
       copyVars, gitPathVars, treeCacheVars, travVars, treeFetchVars,
       nestedVars >>

notNestedVars ==
    << fetchVars, multiVars, cloneFlagVars, populateVars, mtimeVars, casVars,
       copyVars, gitPathVars, treeCacheVars, travVars, treeFetchVars,
       rootNamesVars >>

\* Positions between the Unlock of line 232 and the Lock of line 234.
ExpensivePhases == {"expensive", "clone", "localread", "getblob", "caswrite"}

RootOf(t) == rfile[t].root

\* NewLazyRepo: repo is cache.OpenLocal(url).  mu is the holder of repoMu
\* between two steps (0: free): Repository, Clone and the end of runClone
\* call nothing that blocks while they hold it, so each is one step.
NewLazyRepo(url, dir) ==
    [url |-> url, cloning |-> FALSE, repo |-> url \in dir, mu |-> 0]

\* hist.gets: root -> hash -> number of GetBlob requests sent;
\* hist.err: root -> hashes of which an expensive fetch failed;
\* hist.local: root -> hashes read from the local bare repository;
\* hist.writers: hash -> roots that wrote the hash to the CAS;
\* hist.waited: readers that blocked in fetchingCond.Wait;
\* hist.coalesced: roots whose Clone() found a clone already running;
\* hist.refused: roots whose Clone() found neither a URL nor a repository;
\* hist.exp: reader -> what its fetchFileExpensive met at the local
\* repository, at GetBlob and at the write to the CAS.
NoExp == [local |-> "none", rest |-> "none", cas |-> "none"]

FetchInit ==
    /\ pc = [t \in Readers |-> "idle"]
    /\ rfile = [t \in Readers |-> NoFile]
    /\ rres = [t \in Readers |-> "none"]
    /\ blob = {}
    /\ fetching = [r \in Roots |-> {}]
    /\ fetchingL = [r \in Roots |-> 0]
    /\ gitDir \in {{}, URLs}
    /\ lazy = [r \in Roots |-> NewLazyRepo(RootURL[r], gitDir)]
    /\ runClones = [r \in Roots |-> << >>]
    /\ hist = [gets |-> [r \in Roots |-> [h \in Hashes |-> 0]],
               err |-> [r \in Roots |-> {}],
               local |-> [r \in Roots |-> {}],
               writers |-> [h \in Hashes |-> {}],
               waited |-> {},
               coalesced |-> {},
               refused |-> {},
               exp |-> [t \in Readers |-> NoExp]]

\* No file is read in the run.
FetchIdle ==
    /\ pc = [t \in Readers |-> "done"]
    /\ rfile = [t \in Readers |-> NoFile]
    /\ rres = [t \in Readers |-> "none"]
    /\ blob = {}
    /\ fetching = [r \in Roots |-> {}]
    /\ fetchingL = [r \in Roots |-> 0]
    /\ gitDir = {}
    /\ lazy = [r \in Roots |-> NewLazyRepo(RootURL[r], gitDir)]
    /\ runClones = [r \in Roots |-> << >>]
    /\ hist = [gets |-> [r \in Roots |-> [h \in Hashes |-> 0]],
               err |-> [r \in Roots |-> {}],
               local |-> [r \in Roots |-> {}],
               writers |-> [h \in Hashes |-> {}],
               waited |-> {},
               coalesced |-> {},
               refused |-> {},
               exp |-> [t \in Readers |-> NoExp]]

\* The reader returns from openFile with the given error status.
Return(t, res) ==
    /\ pc' = [pc EXCEPT ![t] = "done"]
    /\ rres' = [rres EXCEPT ![t] = res]

\* openFile: the unlocked CAS lookup, then fetchFile.
OpenFile(t, f) ==
    /\ pc[t] = "idle"
    /\ rfile' = [rfile EXCEPT ![t] = f]
    /\ IF f.id \in blob
         THEN Return(t, "ok")
         ELSE /\ pc' = [pc EXCEPT ![t] = "lock"]
              /\ UNCHANGED rres
    /\ UNCHANGED << blob, fetching, fetchingL, lazy, runClones, gitDir, hist,
                    notFetchVars >>

\* r.fetchingCond.L.Lock(), on entry of fetchFile, on return from Wait and
\* after fetchFileExpensive.
FetchLock(t) ==
    /\ pc[t] \in {"lock", "relock"}
    /\ fetchingL[RootOf(t)] = 0
    /\ fetchingL' = [fetchingL EXCEPT ![RootOf(t)] = t]
    /\ pc' = [pc EXCEPT ![t] = IF pc[t] = "lock" THEN "loop" ELSE "finish"]
    /\ UNCHANGED << rfile, rres, blob, fetching, lazy, runClones, gitDir,
                    hist, notFetchVars >>

\* A variant of FetchLoop that does not wait for a fetch in flight.
FetchLoopNoWait(t) ==
    LET r == RootOf(t)
        id == rfile[t].id
    IN  /\ pc[t] = "loop"
        /\ fetchingL[r] = t
        /\ fetchingL' = [fetchingL EXCEPT ![r] = 0]
        /\ IF id \in blob
             THEN /\ Return(t, "ok")
                  /\ UNCHANGED fetching
             ELSE /\ fetching' = [fetching EXCEPT ![r] = @ \cup {id}]
                  /\ pc' = [pc EXCEPT ![t] = "expensive"]
                  /\ UNCHANGED rres
        /\ UNCHANGED << rfile, blob, lazy, runClones, gitDir, hist,
                        notFetchVars >>

\* A variant of FetchLoop that does not look in the CAS again after waiting.
FetchLoopNoRecheck(t) ==
    LET r == RootOf(t)
        id == rfile[t].id
    IN  /\ pc[t] = "loop"
        /\ fetchingL[r] = t
        /\ fetchingL' = [fetchingL EXCEPT ![r] = 0]
        /\ IF id \in fetching[r]
             THEN /\ pc' = [pc EXCEPT ![t] = "wait"]
                  /\ hist' = [hist EXCEPT !.waited = @ \cup {t}]
                  /\ UNCHANGED << fetching, rres >>
             ELSE /\ fetching' = [fetching EXCEPT ![r] = @ \cup {id}]
                  /\ pc' = [pc EXCEPT ![t] = "expensive"]
                  /\ UNCHANGED << rres, hist >>
        /\ UNCHANGED << rfile, blob, lazy, runClones, gitDir, notFetchVars >>

\* A variant of FetchLoop that keeps the lock during the expensive fetch.
FetchLoopKeepLock(t) ==
    LET r == RootOf(t)
        id == rfile[t].id
    IN  /\ pc[t] = "loop"
        /\ fetchingL[r] = t
        /\ IF id \in fetching[r]
             THEN /\ pc' = [pc EXCEPT ![t] = "wait"]
                  /\ fetchingL' = [fetchingL EXCEPT ![r] = 0]
                  /\ hist' = [hist EXCEPT !.waited = @ \cup {t}]
                  /\ UNCHANGED << fetching, rres >>
             ELSE IF id \in blob
                    THEN /\ Return(t, "ok")
                         /\ fetchingL' = [fetchingL EXCEPT ![r] = 0]
                         /\ UNCHANGED << fetching, hist >>
                    ELSE /\ fetching' = [fetching EXCEPT ![r] = @ \cup {id}]
                         /\ pc' = [pc EXCEPT ![t] = "expensive"]
                         /\ UNCHANGED << fetchingL, rres, hist >>
        /\ UNCHANGED << rfile, blob, lazy, runClones, gitDir, notFetchVars >>

\* fetchFile lines 221-232, with the lock held: wait while the hash is being
\* fetched; otherwise look in the CAS again and return, or mark the hash as
\* being fetched, Unlock and start the expensive fetch.
FetchLoop(t) ==
    LET r == RootOf(t)
        id == rfile[t].id
    IN  /\ pc[t] = "loop"
        /\ fetchingL[r] = t
        /\ fetchingL' = [fetchingL EXCEPT ![r] = 0]
        /\ IF id \in fetching[r]
             THEN /\ pc' = [pc EXCEPT ![t] = "wait"]
                  /\ hist' = [hist EXCEPT !.waited = @ \cup {t}]
                  /\ UNCHANGED << fetching, rres >>
             ELSE IF id \in blob
                    THEN /\ Return(t, "ok")
                         /\ UNCHANGED << fetching, hist >>
                    ELSE /\ fetching' = [fetching EXCEPT ![r] = @ \cup {id}]
                         /\ pc' = [pc EXCEPT ![t] = "expensive"]
                         /\ UNCHANGED << rres, hist >>
        /\ UNCHANGED << rfile, blob, lazy, runClones, gitDir, notFetchVars >>

\* fetchFileExpensive line 259: repo := r.lazyRepo.Repository().  The value
\* of `repo` decides the rest of the function, so it is kept in the position.
ExpRepository(t) ==
    /\ pc[t] = "expensive"
    /\ lazy[RootOf(t)].mu = 0
    /\ pc' = [pc EXCEPT ![t] =
                IF lazy[RootOf(t)].repo THEN "localread"
                ELSE IF rfile[t].clone THEN "clone"
                ELSE "getblob"]
    /\ UNCHANGED << rfile, rres, blob, fetching, fetchingL, lazy, runClones,
                    gitDir, hist, notFetchVars >>

\* A variant of LazyRepo.Clone that does not look at the URL.
LazyRepoCloneAgain(r) ==
    IF lazy[r].repo
      THEN UNCHANGED << lazy, runClones, hist >>
      ELSE IF lazy[r].cloning
        THEN /\ hist' = [hist EXCEPT !.coalesced = @ \cup {r}]
             /\ UNCHANGED << lazy, runClones >>
        ELSE /\ lazy' = [lazy EXCEPT ![r].cloning = TRUE]
             /\ runClones' = [runClones EXCEPT ![r] = Append(@, "start")]
             /\ hist' = [hist EXCEPT !.refused =
                            IF lazy[r].url = "" THEN @ \cup {r} ELSE @]

\* LazyRepo.Clone: nothing when there is no URL or there is a repository,
\* nothing when a clone is in progress; otherwise set cloning and start the
\* runClone goroutine.
LazyRepoClone(r) ==
    IF lazy[r].url = "" \/ lazy[r].repo
      THEN /\ UNCHANGED << lazy, runClones >>
           /\ hist' = [hist EXCEPT !.refused =
                          IF lazy[r].repo THEN @ ELSE @ \cup {r}]
      ELSE IF lazy[r].cloning
        THEN /\ hist' = [hist EXCEPT !.coalesced = @ \cup {r}]
             /\ UNCHANGED << lazy, runClones >>
        ELSE /\ lazy' = [lazy EXCEPT ![r].cloning = TRUE]
             /\ runClones' = [runClones EXCEPT ![r] = Append(@, "start")]
             /\ UNCHANGED hist

\* fetchFileExpensive lines 260-262: r.lazyRepo.Clone().
ExpClone(t) ==
    /\ pc[t] = "clone"
    /\ lazy[RootOf(t)].mu = 0
    /\ LazyRepoClone(RootOf(t))
    /\ pc' = [pc EXCEPT ![t] = "getblob"]
    /\ UNCHANGED << rfile, rres, blob, fetching, fetchingL, gitDir,
                    notFetchVars >>

\* A variant of the read from the bare repository that ends the expensive
\* fetch with an error when the repository does not deliver the blob.
ExpLocalReadNoFallback(t) ==
    /\ pc[t] = "localread"
    /\ \E found \in BOOLEAN :
         IF found
           THEN /\ pc' = [pc EXCEPT ![t] = "caswrite"]
                /\ hist' = [hist EXCEPT
                              !.local[RootOf(t)] = @ \cup {rfile[t].id},
                              !.exp[t].local = "found"]
                /\ UNCHANGED rres
           ELSE /\ pc' = [pc EXCEPT ![t] = "relock"]
                /\ rres' = [rres EXCEPT ![t] = "err"]
                /\ hist' = [hist EXCEPT !.exp[t].local = "miss",
                                        !.err[RootOf(t)] = @ \cup {rfile[t].id}]
    /\ UNCHANGED << rfile, blob, fetching, fetchingL, lazy, runClones,
                    gitDir, notFetchVars >>

\* fetchFileExpensive lines 265-273: read the blob from the bare repository;
\* the blob may be missing from it and the read may fail.
ExpLocalRead(t) ==
    /\ pc[t] = "localread"
    /\ \E found \in BOOLEAN :
         IF found
           THEN /\ pc' = [pc EXCEPT ![t] = "caswrite"]
                /\ hist' = [hist EXCEPT
                              !.local[RootOf(t)] = @ \cup {rfile[t].id},
                              !.exp[t].local = "found"]
           ELSE /\ pc' = [pc EXCEPT ![t] = "getblob"]
                /\ hist' = [hist EXCEPT !.exp[t].local = "miss"]
    /\ UNCHANGED << rfile, rres, blob, fetching, fetchingL, lazy, runClones,
                    gitDir, notFetchVars >>

\* fetchFileExpensive lines 275-283: r.service.GetBlob; an error ends the
\* expensive fetch.
ExpGetBlob(t) ==
    LET r == RootOf(t)
        id == rfile[t].id
    IN  /\ pc[t] = "getblob"
        /\ \E ok \in BOOLEAN :
             IF ok
               THEN /\ pc' = [pc EXCEPT ![t] = "caswrite"]
                    /\ hist' = [hist EXCEPT !.gets[r][id] = @ + 1,
                                            !.exp[t].rest = "ok"]
                    /\ UNCHANGED rres
               ELSE /\ pc' = [pc EXCEPT ![t] = "relock"]
                    /\ rres' = [rres EXCEPT ![t] = "err"]
                    /\ hist' = [hist EXCEPT !.gets[r][id] = @ + 1,
                                            !.err[r] = @ \cup {id},
                                            !.exp[t].rest = "err"]
        /\ UNCHANGED << rfile, blob, fetching, fetchingL, lazy, runClones,
                        gitDir, notFetchVars >>

\* fetchFileExpensive lines 285-288: r.cache.Blob.Write(id, content).
ExpCASWrite(t) ==
    LET r == RootOf(t)
        id == rfile[t].id
    IN  /\ pc[t] = "caswrite"
        /\ pc' = [pc EXCEPT ![t] = "relock"]
        /\ \E ok \in BOOLEAN :
             IF ok
               THEN /\ blob' = blob \cup {id}
                    /\ hist' = [hist EXCEPT !.writers[id] = @ \cup {r},
                                            !.exp[t].cas = "ok"]
                    /\ UNCHANGED rres
               ELSE /\ rres' = [rres EXCEPT ![t] = "err"]
                    /\ hist' = [hist EXCEPT !.err[r] = @ \cup {id},
                                            !.exp[t].cas = "err"]
                    /\ UNCHANGED blob
        /\ UNCHANGED << rfile, fetching, fetchingL, lazy, runClones, gitDir,
                        notFetchVars >>

\* A variant of FetchFinish without the Broadcast.
FetchFinishNoBroadcast(t) ==
    LET r == RootOf(t)
        id == rfile[t].id
    IN  /\ pc[t] = "finish"
        /\ fetchingL[r] = t
        /\ pc' = [pc EXCEPT ![t] = "done"]
        /\ rres' = [rres EXCEPT ![t] =
                      IF rres[t] = "err" THEN "err"
                      ELSE IF id \in blob THEN "ok"
                      ELSE "err"]
        /\ fetching' = [fetching EXCEPT ![r] = @ \ {id}]
        /\ fetchingL' = [fetchingL EXCEPT ![r] = 0]
        /\ UNCHANGED << rfile, blob, lazy, runClones, gitDir, hist,
                        notFetchVars >>

\* A variant of FetchFinish that hands the error of the fetch to the
\* readers that waited for it.
FetchFinishFailWaiters(t) ==
    LET r == RootOf(t)
        id == rfile[t].id
        woken == {w \in Readers : pc[w] = "wait" /\ RootOf(w) = r}
        failed == rres[t] = "err"
    IN  /\ pc[t] = "finish"
        /\ fetchingL[r] = t
        /\ pc' = [w \in Readers |->
                    IF w = t THEN "done"
                    ELSE IF w \in woken
                    THEN (IF failed /\ rfile[w].id = id THEN "done" ELSE "lock")
                    ELSE pc[w]]
        /\ rres' = [w \in Readers |->
                      IF w = t
                      THEN (IF failed THEN "err"
                            ELSE IF id \in blob THEN "ok" ELSE "err")
                      ELSE IF w \in woken /\ failed /\ rfile[w].id = id
                      THEN "err"
                      ELSE rres[w]]
        /\ fetching' = [fetching EXCEPT ![r] = @ \ {id}]
        /\ fetchingL' = [fetchingL EXCEPT ![r] = 0]
        /\ UNCHANGED << rfile, blob, lazy, runClones, gitDir, hist,
                        notFetchVars >>

\* fetchFile lines 235-245 and the deferred calls, with the lock held:
\* Broadcast, open the blob when the fetch succeeded, delete the hash from
\* r.fetching, Unlock.
FetchFinish(t) ==
    LET r == RootOf(t)
        id == rfile[t].id
        woken == {w \in Readers : pc[w] = "wait" /\ RootOf(w) = r}
    IN  /\ pc[t] = "finish"
        /\ fetchingL[r] = t
        /\ pc' = [w \in Readers |->
                    IF w = t THEN "done"
                    ELSE IF w \in woken THEN "lock"
                    ELSE pc[w]]
        /\ rres' = [rres EXCEPT ![t] =
                      IF rres[t] = "err" THEN "err"
                      ELSE IF id \in blob THEN "ok"
                      ELSE "err"]
        /\ fetching' = [fetching EXCEPT ![r] = @ \ {id}]
        /\ fetchingL' = [fetchingL EXCEPT ![r] = 0]
        /\ UNCHANGED << rfile, blob, lazy, runClones, gitDir, hist,
                        notFetchVars >>

RemoveAt(s, i) == SubSeq(s, 1, i - 1) \o SubSeq(s, i + 1, Len(s))

\* runClone line 352, gitCache.Open lines 186-199: the Lstat of the
\* repository path; `git clone` is started when the path does not exist,
\* otherwise the repository is opened.
CacheOpenLstat(r, i) ==
    /\ i \in DOMAIN runClones[r]
    /\ runClones[r][i] = "start"
    /\ runClones' = [runClones EXCEPT ![r][i] =
                       IF RootURL[r] \in gitDir THEN "opened" ELSE "git"]
    /\ UNCHANGED << pc, rfile, rres, blob, fetching, fetchingL, lazy, gitDir,
                    hist, notFetchVars >>

\* gitCache.Open lines 196-201: the `git clone` process exits; on success
\* the repository is on disk and is opened.
GitCloneExit(r, i) ==
    /\ i \in DOMAIN runClones[r]
    /\ runClones[r][i] = "git"
    /\ \E ok \in BOOLEAN :
         IF ok
           THEN /\ gitDir' = gitDir \cup {RootURL[r]}
                /\ runClones' = [runClones EXCEPT ![r][i] = "opened"]
           ELSE /\ runClones' = [runClones EXCEPT ![r][i] = "failed"]
                /\ UNCHANGED gitDir
    /\ UNCHANGED << pc, rfile, rres, blob, fetching, fetchingL, lazy, hist,
                    notFetchVars >>

\* runClone lines 354-362: store the result under repoMu.
RunCloneFinish(r, i) ==
    /\ i \in DOMAIN runClones[r]
    /\ runClones[r][i] \in {"opened", "failed"}
    /\ lazy[r].mu = 0
    /\ lazy' = [lazy EXCEPT ![r] =
                  [url |-> "", cloning |-> FALSE,
                   repo |-> runClones[r][i] = "opened", mu |-> 0]]
    /\ runClones' = [runClones EXCEPT ![r] = RemoveAt(@, i)]
    /\ UNCHANGED << pc, rfile, rres, blob, fetching, fetchingL, gitDir, hist,
                    notFetchVars >>

\* How many GetBlob requests for a blob there can be before a failed read
\* is no longer tried again.
MaxRetries == 2

\* The files whose reads never start a clone.
FilesNoClone == {f \in Files : ~f.clone}

\* A read that failed is issued again: the kernel keeps no error, and the
\* next read of the file calls openFile again.
ReadAgain(t) ==
    /\ pc[t] = "done"
    /\ rres[t] = "err"
    /\ hist.gets[RootOf(t)][rfile[t].id] < MaxRetries
    /\ pc' = [pc EXCEPT ![t] = "idle"]
    /\ rres' = [rres EXCEPT ![t] = "none"]
    /\ rfile' = [rfile EXCEPT ![t] = NoFile]
    /\ hist' = [hist EXCEPT !.waited = @ \ {t}, !.exp[t] = NoExp]
    /\ UNCHANGED << blob, fetching, fetchingL, lazy, runClones, gitDir,
                    notFetchVars >>

\* The reads of the files that are not cloned, with repeated reads.
FetchRetryNext ==
    \/ \E t \in Readers, f \in FilesNoClone : OpenFile(t, f)
    \/ \E t \in Readers : FetchLock(t)
    \/ \E t \in Readers : FetchLoop(t)
    \/ \E t \in Readers : ExpRepository(t)
    \/ \E t \in Readers : ExpGetBlob(t)
    \/ \E t \in Readers : ExpCASWrite(t)
    \/ \E t \in Readers : FetchFinish(t)
    \/ \E t \in Readers : ReadAgain(t)

\* The goroutines of the readers are scheduled: a reader that can take a
\* step takes it, a reader that asks for the lock again and again gets it
\* (sync.Mutex hands the lock to a goroutine that has waited too long),
\* and the requests of the expensive fetch come to an end.
FetchFairness ==
    \A t \in Readers :
        /\ SF_vars(FetchLock(t))
        /\ WF_vars(FetchLoop(t))
        /\ WF_vars(ExpRepository(t))
        /\ WF_vars(ExpGetBlob(t))
        /\ WF_vars(ExpCASWrite(t))
        /\ WF_vars(FetchFinish(t))

FetchNext ==
    \/ \E t \in Readers, f \in Files : OpenFile(t, f)
    \/ \E t \in Readers : FetchLock(t)
    \/ \E t \in Readers : FetchLoop(t)
    \/ \E t \in Readers : ExpRepository(t)
    \/ \E t \in Readers : ExpClone(t)
    \/ \E t \in Readers : ExpLocalRead(t)
    \/ \E t \in Readers : ExpGetBlob(t)
    \/ \E t \in Readers : ExpCASWrite(t)
    \/ \E t \in Readers : FetchFinish(t)
    \/ \E r \in Roots, i \in 1 .. NumReaders : CacheOpenLstat(r, i)
    \/ \E r \in Roots, i \in 1 .. NumReaders : GitCloneExit(r, i)
    \/ \E r \in Roots, i \in 1 .. NumReaders : RunCloneFinish(r, i)

(***************************************************************************)
(* Properties of the blob fetch and of LazyRepo.                           *)
(***************************************************************************)

\* The readers that run the expensive fetch of hash h through root r.
InFlight(r, h) ==
    {t \in Readers : pc[t] \in ExpensivePhases /\ rfile[t] # NoFile
                     /\ RootOf(t) = r /\ rfile[t].id = h}

\* C1 (as stated): for every hash, at most one expensive fetch is in flight
\* in the whole process, whichever root the reads arrive through.
C1_OneFetchPerHashInProcess ==
    \A h \in Hashes : Cardinality(UNION {InFlight(r, h) : r \in Roots}) <= 1

\* C1 (amended): for every gitilesRoot and every hash, at most one expensive
\* fetch of the hash is in flight through that root.
C1_OneFetchPerHashPerRoot ==
    \A r \in Roots, h \in Hashes : Cardinality(InFlight(r, h)) <= 1

\* A fetch of a hash is in flight and another reader of the same root and
\* hash is blocked in Wait.
C1_Witness ==
    \E r \in Roots, h \in Hashes :
        /\ Cardinality(InFlight(r, h)) = 1
        /\ \E w \in Readers : pc[w] = "wait" /\ RootOf(w) = r /\ rfile[w].id = h

\* The runClone goroutines of all LazyRepos with clone URL u.
ClonesOfURL(u) ==
    {<<r, i>> \in Roots \X (1 .. NumReaders) :
        RootURL[r] = u /\ i \in DOMAIN runClones[r]}

\* C3 (as stated): for every clone URL at most one background clone runs in
\* the process at any time, whichever repository or workspace the Clone()
\* calls come from.
C3_OneClonePerURLInProcess ==
    \A u \in URLs : Cardinality(ClonesOfURL(u)) <= 1

\* The reads of node f that have returned.
ReadsDone(f) == {t \in Readers : pc[t] = "done" /\ rfile[t] = f}

\* Reads of f have returned, no expensive fetch of its hash through its root
\* has failed, and no other root has written the hash to the CAS.
C4_Scenario(f) ==
    /\ ReadsDone(f) # {}
    /\ f.id \notin hist.err[f.root]
    /\ hist.writers[f.id] \subseteq {f.root}

\* C4 (as stated): reads of a file whose blob was absent from the CAS, with
\* no failing fetch, cause exactly one GET for the blob over the whole run.
C4_ExactlyOneGet ==
    \A f \in Files : C4_Scenario(f) => hist.gets[f.root][f.id] = 1

\* C4 (amended): such reads all succeed and cause exactly one GET for the
\* blob, or none when the blob was read from the local bare repository.
C4_OneGetUnlessLocal ==
    \A f \in Files :
        C4_Scenario(f) =>
            /\ \A t \in ReadsDone(f) : rres[t] = "ok"
            /\ hist.gets[f.root][f.id] =
                  IF f.id \in hist.local[f.root] THEN 0 ELSE 1

\* Two reads of the same file have returned, one of which waited for the
\* fetch of the other, and one GET was sent.
C4_Witness ==
    \E f \in Files :
        /\ C4_Scenario(f)
        /\ \E t1, t2 \in ReadsDone(f) :
              t1 # t2 /\ t2 \in hist.waited /\ rres[t1] = "ok" /\ rres[t2] = "ok"
        /\ hist.gets[f.root][f.id] = 1

(***************************************************************************)
(* Part 2.  Manifests, trees and the clone options.                        *)
(***************************************************************************)

\* Paths are sequences of path components.
Dir(p) == SubSeq(p, 1, Len(p) - 1)

IsPrefix(p, q) == Len(p) <= Len(q) /\ SubSeq(q, 1, Len(p)) = p

\* A CloneOption: RE is the set of paths the regular expression matches
\* with a non-empty match, Clone its value.
\* The first option matching path decides; def when none matches.
FirstMatch(opts, path, def) ==
    LET hits == {i \in DOMAIN opts : path \in opts[i].RE}
    IN  IF hits = {} THEN def
        ELSE opts[CHOOSE i \in hits : \A j \in hits : i <= j].Clone

\* The clone flag of a project as the manual states it: off with a
\* clone-depth, otherwise the first matching Repo option, otherwise on.
DocumentedProjectClone(cloneDepth, path, repoOpts) ==
    IF cloneDepth # "" THEN FALSE ELSE FirstMatch(repoOpts, path, TRUE)

\* manifestFSRoot.onMount lines 107-115 and 128-136: a project without
\* clone-depth is in clonablePaths and is cloned; only for the other
\* projects are the Repo options consulted, with default false.
ProjectClone(cloneDepth, path, repoOpts) ==
    IF cloneDepth = "" THEN TRUE ELSE FirstMatch(repoOpts, path, FALSE)

\* gitilesRoot.onMount lines 411-419: the clone hint of a file.
FileClone(cloneURL, path, fileOpts) ==
    IF cloneURL = "" THEN FALSE ELSE FirstMatch(fileOpts, path, TRUE)

\* gitilesRoot.onMount line 421: xbit := e.Mode&0111 != 0.
Xbit(mode) ==
    \/ (mode \div 64) % 2 = 1
    \/ (mode \div 8) % 2 = 1
    \/ mode % 2 = 1

\* The workspace names used in commands.
Names == {"ws1", "ws2"}

\* The options of the multi-manifest file system (clone.json).
RepoCloneOption == << >>

\* {"File": ".*mk$", "Clone": false}
FileCloneOption == << [RE |-> {<<"b.mk">>}, Clone |-> FALSE] >>

\* The recursively expanded trees the Gitiles service returns, by revision.
RegularMode == 33188

ExecutableMode == 33261

Trees ==
    [ v1 |-> << [Name |-> <<"a">>, ID |-> "h1", Mode |-> RegularMode,
                 Type |-> "blob"] >>,
      v2 |-> << [Name |-> <<"a">>, ID |-> "h1", Mode |-> RegularMode,
                 Type |-> "blob"],
                [Name |-> <<"x">>, ID |-> "h1", Mode |-> ExecutableMode,
                 Type |-> "blob"],
                [Name |-> <<"b.mk">>, ID |-> "h1", Mode |-> RegularMode,
                 Type |-> "blob"] >> ]

\* The manifest files of the model: xmlA and xmlB mount one project at
\* revisions v1 and v2; xmlC has a copyfile whose source does not exist;
\* notxml does not parse.
ProjectOf(rev, copy) ==
    [Name |-> "platform/p", Path |-> <<"p">>, Revision |-> rev,
     CloneURL |-> "u1", CloneDepth |-> "", Copyfile |-> copy,
     Linkfile |-> << >>]

ValidBytes == {"xmlA", "xmlB", "xmlC"}

ManifestBytes == ValidBytes \cup {"notxml"}

\* What ioutil.ReadFile can give for the target of a create command: the
\* bytes of the file, or an error for a target that cannot be read.
Contents == ManifestBytes \cup {"unreadable"}

\* The bytes MarshalXML writes: the manifests above in the layout of the
\* encoder, which is not the layout of the files that were supplied.
MarshalledBytes == {"<xmlA>", "<xmlB>", "<xmlC>"}

\* manifest.Parse: the projects of the manifest.
Parse(bytes) ==
    CASE bytes \in {"xmlA", "<xmlA>"} -> << ProjectOf("v1", << >>) >>
      [] bytes \in {"xmlB", "<xmlB>"} -> << ProjectOf("v2", << >>) >>
      [] bytes \in {"xmlC", "<xmlC>"} ->
            << ProjectOf("v1", << [Src |-> <<"nofile">>, Dest |-> <<"c">>] >>) >>

\* Manifest.MarshalXML: the encoding of the manifest.
MarshalXML(mf) == CHOOSE b \in MarshalledBytes : Parse(b) = mf

(***************************************************************************)
(* Part 3.  The inode tree of a workspace.                                 *)
(***************************************************************************)

\* An inode tree is a function from the paths below its root to entries.
DirEntry == [kind |-> "dir", ref |-> 0, data |-> ""]

FileEntry(n) == [kind |-> "file", ref |-> n, data |-> ""]

DataEntry(bytes) == [kind |-> "data", ref |-> 0, data |-> bytes]

LinkEntry(target) == [kind |-> "link", ref |-> 0, data |-> target]

EmptyTree == [q \in {} |-> DirEntry]

\* fsConn.Node(root, path): the number of leading components that exist.
Known(tree, path) ==
    CHOOSE k \in 0 .. Len(path) :
        /\ \A j \in 1 .. k : SubSeq(path, 1, j) \in DOMAIN tree
        /\ k = Len(path) \/ SubSeq(path, 1, k + 1) \notin DOMAIN tree

\* Inode.NewChild / Inode.AddChild: the entry at path is set; what was
\* below an entry it replaces is gone.
NewChild(tree, path, entry) ==
    [q \in {x \in DOMAIN tree : ~IsPrefix(path, x)} \cup {path} |->
        IF q = path THEN entry ELSE tree[q]]

\* pathTo: the directories of dir that do not exist are created.
PathTo(tree, dir) ==
    [q \in DOMAIN tree \cup {SubSeq(dir, 1, j) : j \in 1 .. Len(dir)} |->
        IF q \in DOMAIN tree THEN tree[q] ELSE DirEntry]

\* filepath.Rel(base, targ) for clean relative paths.
CommonLen(a, b) ==
    CHOOSE k \in 0 .. Len(a) :
        /\ k <= Len(b)
        /\ SubSeq(a, 1, k) = SubSeq(b, 1, k)
        /\ k = Len(a) \/ k = Len(b) \/ a[k + 1] # b[k + 1]

Rel(base, targ) ==
    LET k == CommonLen(base, targ)
    IN  [i \in 1 .. (Len(base) - k) |-> ".."] \o SubSeq(targ, k + 1, Len(targ))

\* A variant of Copyfile that attaches the node of the same blob with the
\* other execute bit.
CopyfileStepOtherNode(tree, path, cp) ==
    LET src == path \o cp.Src
    IN  IF Known(tree, src) < Len(src)
          THEN [tree |-> tree, err |-> "Copyfile: source does not exist"]
        ELSE IF Known(tree, cp.Dest) = Len(cp.Dest)
          THEN [tree |-> tree, err |-> "Copyfile: dest already exists"]
        ELSE IF Known(tree, cp.Dest) < Len(cp.Dest) - 1
          THEN [tree |-> tree,
                err |-> "Copyfile: directory for dest does not exist"]
        ELSE [tree |-> NewChild(tree, cp.Dest,
                                [tree[src] EXCEPT !.ref = << @[1], ~@[2] >>]),
              err |-> ""]

\* A variant of Copyfile that replaces a destination that exists.
CopyfileStepOverwrite(tree, path, cp) ==
    LET src == path \o cp.Src
    IN  IF Known(tree, src) < Len(src)
          THEN [tree |-> tree, err |-> "Copyfile: source does not exist"]
        ELSE IF Known(tree, cp.Dest) < Len(cp.Dest) - 1
          THEN [tree |-> tree,
                err |-> "Copyfile: directory for dest does not exist"]
        ELSE [tree |-> NewChild(tree, cp.Dest, tree[src]), err |-> ""]

\* manifestFSRoot.onMount lines 164-181: one Copyfile of the project at
\* path.  The result is the tree, or the error.
CopyfileStep(tree, path, cp) ==
    LET src == path \o cp.Src
    IN  IF Known(tree, src) < Len(src)
          THEN [tree |-> tree, err |-> "Copyfile: source does not exist"]
        ELSE IF Known(tree, cp.Dest) = Len(cp.Dest)
          THEN [tree |-> tree, err |-> "Copyfile: dest already exists"]
        ELSE IF Known(tree, cp.Dest) < Len(cp.Dest) - 1
          THEN [tree |-> tree,
                err |-> "Copyfile: directory for dest does not exist"]
        ELSE [tree |-> NewChild(tree, cp.Dest, tree[src]), err |-> ""]

\* manifestFSRoot.onMount lines 183-201: one Linkfile.
LinkfileStep(tree, path, lf) ==
    IF Known(tree, lf.Dest) = Len(lf.Dest)
      THEN [tree |-> tree, err |-> "Linkfile: dest already exists"]
    ELSE IF Known(tree, lf.Dest) < Len(lf.Dest) - 1
      THEN [tree |-> tree,
            err |-> "Linkfile: directory for dest does not exist"]
    ELSE [tree |-> NewChild(tree, lf.Dest,
                            LinkEntry(Rel(Dir(lf.Dest), path \o lf.Src))),
          err |-> ""]

\* The Copyfile and Linkfile directives of the projects, in the order of
\* lines 164-202.
RECURSIVE Directives(_)
Directives(projects) ==
    IF projects = << >> THEN << >>
    ELSE LET p == Head(projects)
         IN  [i \in DOMAIN p.Copyfile |->
                 [copy |-> TRUE, path |-> p.Path, d |-> p.Copyfile[i]]]
             \o [i \in DOMAIN p.Linkfile |->
                 [copy |-> FALSE, path |-> p.Path, d |-> p.Linkfile[i]]]
             \o Directives(Tail(projects))

\* The directives are applied in turn; the first error ends the mount.
RECURSIVE ApplyDirectives(_, _)
ApplyDirectives(tree, ds) ==
    IF ds = << >> THEN [tree |-> tree, err |-> ""]
    ELSE LET d == Head(ds)
             r == IF d.copy THEN CopyfileStep(tree, d.path, d.d)
                  ELSE LinkfileStep(tree, d.path, d.d)
         IN  IF r.err # "" THEN r ELSE ApplyDirectives(r.tree, Tail(ds))

\* manifestFSRoot.onMount lines 204-212: the metadata files of a workspace.
MetaFiles(tree, xml) ==
    NewChild(NewChild(NewChild(tree, <<".slothfs">>, DirEntry),
                      <<".slothfs", "manifest.xml">>, DataEntry(xml)),
             <<".slothfs", "tree.json">>, DataEntry("{}"))

\* gitilesRoot.onMount lines 453-461: the metadata files of a project.
ProjectMetaFiles(tree, path, rev) ==
    NewChild(NewChild(NewChild(tree, path \o <<".slothfs">>, DirEntry),
                      path \o <<".slothfs", "treeID">>, DataEntry(rev)),
             path \o <<".slothfs", "tree.json">>, DataEntry(rev))

\* The tree of a workspace whose mount failed (Symlink lines 191-195).
ErrorTree(msg) == NewChild(EmptyTree, <<"ERROR">>, DataEntry(msg))

(***************************************************************************)
(* Part 4.  The multi-manifest file system: config/ and the workspaces.    *)
(***************************************************************************)

\* The key of the nodeCache.
NodeCacheKey(id, xbit) == << id, xbit >>

\* nodeCache.get: the node index, 0 for nil.
NodeCacheGet(id, xbit) ==
    IF NodeCacheKey(id, xbit) \in DOMAIN nodeMap
    THEN nodeMap[NodeCacheKey(id, xbit)] ELSE 0

\* nodeCache.add of the node with index k.
NodeCacheAdd(node, k) ==
    LET key == NodeCacheKey(node.id, Xbit(node.mode))
    IN  [q \in DOMAIN nodeMap \cup {key} |-> IF q = key THEN k ELSE nodeMap[q]]

\* The state of the command on a name: nothing ran yet.
IdleCmd ==
    [op |-> "none", pc |-> "idle", bytes |-> "", todo |-> << >>, ent |-> 0,
     got |-> 0, err |-> "", cause |-> "", status |-> "", serving |-> FALSE]

\* A call of configNode.Symlink(name, content) about to read its target.
\* serving: the call comes from the kernel, not from configureWorkspaces
\* (which runs in OnMount, before any request is served).
SymlinkCmd(bytes) ==
    [op |-> "symlink", pc |-> "read", bytes |-> bytes, todo |-> << >>,
     ent |-> 0, got |-> 0, err |-> "", cause |-> "", status |-> "",
     serving |-> FALSE]

\* A handler that returned.
Returned(cmd, cause, status) ==
    [cmd EXCEPT !.pc = "done", !.cause = cause, !.status = status]

\* No handler of config/ is running.
Quiet == \A n \in Names : cmds[n].pc \in {"idle", "done"}

\* How often the daemon is restarted in a run.
MaxRestarts == 1

\* The files a manifest directory can hold when the daemon starts.
StartFiles == {"", "xmlA", "xmlB", "notxml"}

\* multiManifestFSRoot.OnMount: config/ exists and configureWorkspaces has
\* started one Symlink goroutine per file of the manifest directory.
MultiInit ==
    /\ manifestDir \in [Names -> StartFiles]
    /\ rootCh = [n \in {} |-> EmptyTree]
    /\ configCh = [n \in {} |-> << >>]
    /\ nodes = << >>
    /\ nodeMap = [q \in {} |-> 0]
    /\ kcache = {}
    /\ boot = [n |-> 0, before |-> {}]
    /\ cmds = [n \in Names |->
                 IF manifestDir[n] = "" THEN IdleCmd
                 ELSE SymlinkCmd(manifestDir[n])]

\* The multi-manifest file system is not part of the run.
MultiIdle ==
    /\ manifestDir = [n \in Names |-> ""]
    /\ rootCh = [n \in {} |-> EmptyTree]
    /\ configCh = [n \in {} |-> << >>]
    /\ nodes = << >>
    /\ nodeMap = [q \in {} |-> 0]
    /\ kcache = {}
    /\ boot = [n |-> 0, before |-> {}]
    /\ cmds = [n \in Names |-> IdleCmd]

\* symlink(2) on config/<n> while the daemon serves: the kernel holds the
\* lock of config/ over the handler and refuses a name that exists.
SymlinkCall(n, bytes) ==
    /\ Quiet
    /\ n \notin DOMAIN configCh
    /\ cmds' = [cmds EXCEPT ![n] = [SymlinkCmd(bytes) EXCEPT !.serving = TRUE]]
    /\ UNCHANGED << rootCh, configCh, nodes, nodeMap, manifestDir,
                    kcache, boot, notMultiVars >>

\* A variant of SymlinkRead that installs the entry of config/ before it
\* parses the manifest.
SymlinkReadAfterConfig(n) ==
    /\ cmds[n].pc = "read"
    /\ configCh' = [q \in DOMAIN configCh \cup {n} |->
                      IF q = n THEN << "..", n, ".slothfs", "manifest.xml" >>
                      ELSE configCh[q]]
    /\ cmds' = [cmds EXCEPT ![n] =
         IF cmds[n].bytes = "unreadable"
           THEN Returned(cmds[n], "read", "ENOENT")
         ELSE IF cmds[n].bytes \notin ValidBytes
           THEN Returned(cmds[n], "parse", "EINVAL")
         ELSE [cmds[n] EXCEPT !.pc = "newfs"]]
    /\ UNCHANGED << rootCh, nodes, nodeMap, manifestDir, kcache, boot, notMultiVars >>

\* Symlink lines 153-162: ReadFile and manifest.Parse.
SymlinkRead(n) ==
    /\ cmds[n].pc = "read"
    /\ cmds' = [cmds EXCEPT ![n] =
         IF cmds[n].bytes = "unreadable"
           THEN Returned(cmds[n], "read", "ENOENT")
         ELSE IF cmds[n].bytes \notin ValidBytes
           THEN Returned(cmds[n], "parse", "EINVAL")
         ELSE [cmds[n] EXCEPT !.pc = "newfs"]]
    /\ UNCHANGED << rootCh, configCh, nodes, nodeMap, manifestDir,
                    kcache, boot, notMultiVars >>

\* A variant of the failing NewManifestFS that attaches a workspace holding
\* the ERROR file.
NewManifestFSErrorNode(n) ==
    /\ cmds[n].pc = "newfs"
    /\ rootCh' = [q \in DOMAIN rootCh \cup {n} |->
                    IF q = n THEN ErrorTree("Tree: fetch failed")
                    ELSE rootCh[q]]
    /\ cmds' = [cmds EXCEPT ![n] = Returned(cmds[n], "tree", "EIO")]
    /\ UNCHANGED << configCh, nodes, nodeMap, manifestDir, kcache, boot, notMultiVars >>

\* Symlink lines 170-174 when NewManifestFS fails (fetchTreeMap got an
\* error for a project): EIO, and nothing was attached.
NewManifestFSError(n) ==
    /\ cmds[n].pc = "newfs"
    /\ cmds' = [cmds EXCEPT ![n] = Returned(cmds[n], "tree", "EIO")]
    /\ UNCHANGED << rootCh, configCh, nodes, nodeMap, manifestDir,
                    kcache, boot, notMultiVars >>

\* The projects in the order of their mount: by the depth of the path.
RECURSIVE ByDepth(_)
ByDepth(projects) ==
    IF projects = << >> THEN << >>
    ELSE LET i == CHOOSE i \in DOMAIN projects :
                    \A j \in DOMAIN projects :
                        \/ Len(projects[i].Path) < Len(projects[j].Path)
                        \/ Len(projects[i].Path) = Len(projects[j].Path)
                           /\ i <= j
         IN  << projects[i] >>
             \o ByDepth([k \in 1 .. (Len(projects) - 1) |->
                            IF k < i THEN projects[k] ELSE projects[k + 1]])

\* Symlink lines 170-175 when NewManifestFS succeeds: all trees were fetched.
NewManifestFSOk(n) ==
    /\ cmds[n].pc = "newfs"
    /\ cmds' = [cmds EXCEPT ![n] =
                  [@ EXCEPT !.pc = "attach",
                            !.todo = ByDepth(Parse(cmds[n].bytes))]]
    /\ UNCHANGED << rootCh, configCh, nodes, nodeMap, manifestDir,
                    kcache, boot, notMultiVars >>

\* Symlink line 177: the workspace directory is attached, empty.
AttachRoot(n) ==
    /\ cmds[n].pc = "attach"
    /\ rootCh' = [q \in DOMAIN rootCh \cup {n} |->
                    IF q = n THEN EmptyTree ELSE rootCh[q]]
    /\ cmds' = [cmds EXCEPT ![n].pc = "config"]
    /\ UNCHANGED << configCh, nodes, nodeMap, manifestDir, kcache, boot, notMultiVars >>

\* A variant of AttachConfig whose link lacks the leading "..".
AttachConfigNoParent(n) ==
    /\ cmds[n].pc = "config"
    /\ configCh' = [q \in DOMAIN configCh \cup {n} |->
                      IF q = n THEN << n, ".slothfs", "manifest.xml" >>
                      ELSE configCh[q]]
    /\ cmds' = [cmds EXCEPT ![n].pc = "project"]
    /\ UNCHANGED << rootCh, nodes, nodeMap, manifestDir, kcache, boot, notMultiVars >>

\* Symlink lines 183-187: the entry of config/.
AttachConfig(n) ==
    /\ cmds[n].pc = "config"
    /\ configCh' = [q \in DOMAIN configCh \cup {n} |->
                      IF q = n THEN << "..", n, ".slothfs", "manifest.xml" >>
                      ELSE configCh[q]]
    /\ cmds' = [cmds EXCEPT ![n].pc = "project"]
    /\ UNCHANGED << rootCh, nodes, nodeMap, manifestDir, kcache, boot, notMultiVars >>

\* The tree of the project that the command on n is mounting.
CurTree(n) == Trees[Head(cmds[n].todo).Revision]

\* manifestFSRoot.onMount lines 119-155: the directory of the next project
\* is attached; after the last project the copies and links follow.
ProjectAttach(n) ==
    /\ cmds[n].pc = "project"
    /\ cmds[n].todo # << >>
    /\ LET path == Head(cmds[n].todo).Path
       IN  rootCh' = [rootCh EXCEPT ![n] =
                        NewChild(PathTo(@, Dir(path)), path, DirEntry)]
    /\ cmds' = [cmds EXCEPT ![n] = [@ EXCEPT !.pc = "get", !.ent = 1]]
    /\ UNCHANGED << configCh, nodes, nodeMap, manifestDir, kcache, boot, notMultiVars >>

\* gitilesRoot.onMount lines 404-422: the directory of the entry is made
\* and the node cache is asked for its blob.
EntryGet(n) ==
    /\ cmds[n].pc = "get"
    /\ cmds[n].ent <= Len(CurTree(n))
    /\ LET e == CurTree(n)[cmds[n].ent]
           p == Head(cmds[n].todo).Path \o e.Name
       IN  /\ rootCh' = [rootCh EXCEPT ![n] = PathTo(@, Dir(p))]
           /\ cmds' = [cmds EXCEPT ![n] =
                [@ EXCEPT !.pc = "add",
                          !.got = NodeCacheGet(e.ID, Xbit(e.Mode))]]
    /\ UNCHANGED << configCh, nodes, nodeMap, manifestDir, kcache, boot, notMultiVars >>

\* A variant of EntryAdd that does not attach a node found in the cache.
EntryAddNewOnly(n) ==
    /\ cmds[n].pc = "add"
    /\ LET proj == Head(cmds[n].todo)
           e == CurTree(n)[cmds[n].ent]
           p == proj.Path \o e.Name
           new == [id |-> e.ID, mode |-> e.Mode, clone |-> TRUE,
                   root |-> << n, proj.Path >>]
           k == Len(nodes) + 1
       IN  IF cmds[n].got = 0
           THEN /\ nodes' = Append(nodes, new)
                /\ rootCh' = [rootCh EXCEPT ![n] = NewChild(@, p, FileEntry(k))]
                /\ nodeMap' = NodeCacheAdd(new, k)
           ELSE UNCHANGED << rootCh, nodes, nodeMap >>
    /\ cmds' = [cmds EXCEPT ![n] =
                  [@ EXCEPT !.pc = "get", !.ent = @ + 1, !.got = 0]]
    /\ UNCHANGED << configCh, manifestDir, kcache, boot, notMultiVars >>

\* gitilesRoot.onMount lines 423-449: a node the cache did not have is
\* made, attached and added to the cache; a node it had is attached again.
EntryAdd(n) ==
    /\ cmds[n].pc = "add"
    /\ LET proj == Head(cmds[n].todo)
           e == CurTree(n)[cmds[n].ent]
           p == proj.Path \o e.Name
           cloneURL == IF ProjectClone(proj.CloneDepth, proj.Path,
                                       RepoCloneOption)
                       THEN proj.CloneURL ELSE ""
           new == [id |-> e.ID, mode |-> e.Mode,
                   clone |-> FileClone(cloneURL, e.Name, FileCloneOption),
                   root |-> << n, proj.Path >>]
           k == Len(nodes) + 1
       IN  IF cmds[n].got = 0
           THEN /\ nodes' = Append(nodes, new)
                /\ rootCh' = [rootCh EXCEPT ![n] = NewChild(@, p, FileEntry(k))]
                /\ nodeMap' = NodeCacheAdd(new, k)
           ELSE /\ rootCh' = [rootCh EXCEPT ![n] =
                                NewChild(@, p, FileEntry(cmds[n].got))]
                /\ UNCHANGED << nodes, nodeMap >>
    /\ cmds' = [cmds EXCEPT ![n] =
                  [@ EXCEPT !.pc = "get", !.ent = @ + 1, !.got = 0]]
    /\ UNCHANGED << configCh, manifestDir, kcache, boot, notMultiVars >>

\* gitilesRoot.onMount lines 453-469: the metadata of the project, once
\* all entries are attached.
ProjectMeta(n) ==
    /\ cmds[n].pc = "get"
    /\ cmds[n].ent > Len(CurTree(n))
    /\ LET proj == Head(cmds[n].todo)
       IN  rootCh' = [rootCh EXCEPT ![n] =
                        ProjectMetaFiles(@, proj.Path, proj.Revision)]
    /\ cmds' = [cmds EXCEPT ![n] =
                  [@ EXCEPT !.pc = "project", !.todo = Tail(@), !.ent = 0]]
    /\ UNCHANGED << configCh, nodes, nodeMap, manifestDir, kcache, boot, notMultiVars >>

\* manifestFSRoot.onMount lines 164-214: copies and links, then the
\* metadata of the workspace; the first error ends the mount.
Overlay(n) ==
    /\ cmds[n].pc = "project"
    /\ cmds[n].todo = << >>
    /\ LET r == ApplyDirectives(rootCh[n],
                                Directives(Parse(cmds[n].bytes)))
       IN  IF r.err # ""
           THEN /\ rootCh' = [rootCh EXCEPT ![n] = r.tree]
                /\ cmds' = [cmds EXCEPT ![n] =
                             [@ EXCEPT !.pc = "fail", !.err = r.err,
                                       !.cause = "mount"]]
           ELSE /\ rootCh' = [rootCh EXCEPT ![n] =
                                MetaFiles(r.tree,
                                          MarshalXML(Parse(cmds[n].bytes)))]
                /\ cmds' = [cmds EXCEPT ![n].pc = "persist"]
    /\ UNCHANGED << configCh, nodes, nodeMap, manifestDir, kcache, boot, notMultiVars >>

\* A variant of MountFail that adds the ERROR file and keeps the rest.
MountFailKeepChildren(n) ==
    /\ cmds[n].pc = "fail"
    /\ rootCh' = [rootCh EXCEPT ![n] =
                    NewChild(@, <<"ERROR">>, DataEntry(cmds[n].err))]
    /\ cmds' = [cmds EXCEPT ![n].pc = "notify"]
    /\ UNCHANGED << configCh, nodes, nodeMap, manifestDir, kcache, boot, notMultiVars >>

\* Symlink lines 189-195: every child of the workspace is removed and the
\* ERROR file with the message is its only child.
MountFail(n) ==
    /\ cmds[n].pc = "fail"
    /\ rootCh' = [rootCh EXCEPT ![n] = ErrorTree(cmds[n].err)]
    /\ cmds' = [cmds EXCEPT ![n].pc = "notify"]
    /\ UNCHANGED << configCh, nodes, nodeMap, manifestDir, kcache, boot, notMultiVars >>

\* Symlink lines 196-217: the manifest is written to the manifest
\* directory; an error of the temporary file is dropped silently.
Persist(n) ==
    /\ cmds[n].pc = "persist"
    /\ \/ manifestDir' = [manifestDir EXCEPT ![n] = cmds[n].bytes]
       \/ UNCHANGED manifestDir
    /\ cmds' = [cmds EXCEPT ![n].pc = "notify"]
    /\ UNCHANGED << rootCh, configCh, nodes, nodeMap, kcache, boot, notMultiVars >>

\* A variant of SymlinkReturn that reports a failed mount as EIO.
SymlinkReturnEIO(n) ==
    /\ cmds[n].pc = "notify"
    /\ cmds' = [cmds EXCEPT ![n] =
                  IF cmds[n].err # "" THEN Returned(cmds[n], "mount", "EIO")
                  ELSE Returned(cmds[n], "", "OK")]
    /\ kcache' = kcache \ {n}
    /\ UNCHANGED << rootCh, configCh, nodes, nodeMap, manifestDir,
                    boot, notMultiVars >>

\* Symlink lines 219-221: the kernel is notified and the call returns OK,
\* after a failed mount too.
SymlinkReturn(n) ==
    /\ cmds[n].pc = "notify"
    /\ cmds' = [cmds EXCEPT ![n] = Returned(cmds[n], cmds[n].cause, "OK")]
    /\ kcache' = kcache \ {n}
    /\ UNCHANGED << rootCh, configCh, nodes, nodeMap, manifestDir,
                    boot, notMultiVars >>

\* f without n in its domain.
Without(f, n) == [q \in DOMAIN f \ {n} |-> f[q]]

\* Requests are served: configureWorkspaces has returned.
Serving == \A n \in Names : cmds[n].serving \/ cmds[n].pc \in {"idle", "done"}

\* The kernel looks /<n> up (rawBridge.Lookup finds the child of the root
\* inode) and keeps the entry in its dentry cache.
KernelLookup(n) ==
    /\ Serving
    /\ n \in DOMAIN rootCh
    /\ n \notin kcache
    /\ kcache' = kcache \cup {n}
    /\ UNCHANGED << rootCh, configCh, nodes, nodeMap, manifestDir, cmds,
                    boot, notMultiVars >>

\* stat(/<n>) succeeds: the kernel has the entry, or the lookup finds it.
StatFinds(n) == n \in kcache \/ n \in DOMAIN rootCh

\* A variant of Unlink that does not notify the kernel.
UnlinkNoNotify(n) ==
    /\ Quiet
    /\ n \in DOMAIN configCh
    /\ IF n \notin DOMAIN rootCh
       THEN /\ cmds' = [cmds EXCEPT ![n] =
                          [IdleCmd EXCEPT !.op = "unlink", !.pc = "done",
                                          !.status = "ENOENT",
                                          !.serving = TRUE]]
            /\ UNCHANGED << rootCh, configCh, manifestDir, kcache >>
       ELSE /\ rootCh' = Without(rootCh, n)
            /\ UNCHANGED kcache
            /\ configCh' = Without(configCh, n)
            /\ manifestDir' = [manifestDir EXCEPT ![n] = ""]
            /\ cmds' = [cmds EXCEPT ![n] =
                          [IdleCmd EXCEPT !.op = "unlink", !.pc = "done",
                                          !.status = "OK",
                                          !.serving = TRUE]]
    /\ UNCHANGED << nodes, nodeMap, boot, notMultiVars >>

\* A variant of Unlink that also detaches, in the other workspaces, the
\* files whose node was made by the workspace that is destroyed.
UnlinkWithNodes(n) ==
    /\ Quiet
    /\ n \in DOMAIN configCh
    /\ IF n \notin DOMAIN rootCh
       THEN /\ cmds' = [cmds EXCEPT ![n] =
                          [IdleCmd EXCEPT !.op = "unlink", !.pc = "done",
                                          !.status = "ENOENT",
                                          !.serving = TRUE]]
            /\ UNCHANGED << rootCh, configCh, manifestDir, kcache >>
       ELSE /\ rootCh' =
                 [q \in DOMAIN rootCh \ {n} |->
                    [f \in {g \in DOMAIN rootCh[q] :
                               \/ rootCh[q][g].kind # "file"
                               \/ nodes[rootCh[q][g].ref].root[1] # n} |->
                        rootCh[q][f]]]
            /\ kcache' = kcache \ {n}
            /\ configCh' = Without(configCh, n)
            /\ manifestDir' = [manifestDir EXCEPT ![n] = ""]
            /\ cmds' = [cmds EXCEPT ![n] =
                          [IdleCmd EXCEPT !.op = "unlink", !.pc = "done",
                                          !.status = "OK",
                                          !.serving = TRUE]]
    /\ UNCHANGED << nodes, nodeMap, boot, notMultiVars >>

\* unlink(2) on config/<n> while the daemon serves (the kernel looked the
\* name up in config/ and holds the lock of config/), configNode.Unlink.
Unlink(n) ==
    /\ Quiet
    /\ n \in DOMAIN configCh
    /\ IF n \notin DOMAIN rootCh
       THEN /\ cmds' = [cmds EXCEPT ![n] =
                          [IdleCmd EXCEPT !.op = "unlink", !.pc = "done",
                                          !.status = "ENOENT",
                                          !.serving = TRUE]]
            /\ UNCHANGED << rootCh, configCh, manifestDir, kcache >>
       ELSE /\ rootCh' = Without(rootCh, n)
            /\ kcache' = kcache \ {n}
            /\ configCh' = Without(configCh, n)
            /\ manifestDir' = [manifestDir EXCEPT ![n] = ""]
            /\ cmds' = [cmds EXCEPT ![n] =
                          [IdleCmd EXCEPT !.op = "unlink", !.pc = "done",
                                          !.status = "OK",
                                          !.serving = TRUE]]
    /\ UNCHANGED << nodes, nodeMap, boot, notMultiVars >>

\* The workspace n was mounted successfully and has not been destroyed.
MountedOk(n) ==
    /\ cmds[n].op = "symlink"
    /\ cmds[n].pc = "done"
    /\ cmds[n].status = "OK"
    /\ cmds[n].err = ""

\* The daemon is stopped and started again on the same manifest directory:
\* NewMultiManifestFS builds an empty root and an empty node cache, OnMount
\* attaches config/ and configureWorkspaces starts one Symlink per file.
\* boot.before remembers the workspaces that were mounted before.
Restart ==
    /\ Quiet
    /\ boot.n < MaxRestarts
    /\ boot' = [n |-> boot.n + 1, before |-> {n \in Names : MountedOk(n)}]
    /\ rootCh' = [n \in {} |-> EmptyTree]
    /\ configCh' = [n \in {} |-> << >>]
    /\ nodes' = << >>
    /\ nodeMap' = [q \in {} |-> 0]
    /\ kcache' = {}
    /\ cmds' = [n \in Names |->
                  IF manifestDir[n] = "" THEN IdleCmd
                  ELSE SymlinkCmd(manifestDir[n])]
    /\ UNCHANGED << manifestDir, notMultiVars >>

MultiNext ==
    \/ Restart
    \/ \E n \in Names :
        \/ \E bytes \in Contents : SymlinkCall(n, bytes)
        \/ SymlinkRead(n)
        \/ NewManifestFSError(n)
        \/ NewManifestFSOk(n)
        \/ AttachRoot(n)
        \/ AttachConfig(n)
        \/ ProjectAttach(n)
        \/ EntryGet(n)
        \/ EntryAdd(n)
        \/ ProjectMeta(n)
        \/ Overlay(n)
        \/ MountFail(n)
        \/ Persist(n)
        \/ SymlinkReturn(n)
        \/ Unlink(n)
        \/ KernelLookup(n)

(***************************************************************************)
(* Part 5.  The clone flag of a project, as a function of its inputs.      *)
(***************************************************************************)

MaxRules == 2

ProjectPaths == {<<"build">>, <<"prebuilts", "darwin">>}

CloneOptions == [RE : SUBSET ProjectPaths, Clone : BOOLEAN]

RuleLists ==
    UNION {[1 .. k -> CloneOptions] : k \in 0 .. MaxRules}

CloneFlagInit ==
    /\ cfIn \in [CloneDepth : {"", "1"}, Path : ProjectPaths,
                 RepoCloneOption : RuleLists]
    /\ cfOut = << >>

CloneFlagIdle ==
    /\ cfIn = [CloneDepth |-> "", Path |-> << >>, RepoCloneOption |-> << >>]
    /\ cfOut = << >>

\* manifestFSRoot.onMount computes the clone flag of the project.
ComputeProjectClone ==
    /\ cfOut = << >>
    /\ cfOut' = << ProjectClone(cfIn.CloneDepth, cfIn.Path,
                               cfIn.RepoCloneOption) >>
    /\ UNCHANGED << cfIn, notCloneFlagVars >>

CloneFlagNext == ComputeProjectClone

(***************************************************************************)
(* Part 6.  populate: Checkout of a R/W directory against a workspace.     *)
(***************************************************************************)

MaxRuns == 2

\* The workspaces under the mount and the repositories of their manifests:
\* a project p and the projects p/s and p/t below it.
Workspaces == {"w1", "w2"}

Repos == {<<"p">>, <<"p", "s">>, <<"p", "t">>}

\* Every repository of the model holds one file, a, with a SHA1.
Shas == {"s1", "s2"}

PopulateInit ==
    /\ snapshot \in [Workspaces -> [Repos -> Shas \cup {"-"}]]
    /\ mounted \in SUBSET Workspaces
    /\ rwRepos \in SUBSET Repos
    /\ links = {}
    /\ runs = << >>
    /\ rwFiles = {}
    /\ outside = {}

PopulateIdle ==
    /\ snapshot = [w \in Workspaces |-> [r \in Repos |-> "-"]]
    /\ mounted = {}
    /\ rwRepos = {}
    /\ links = {}
    /\ runs = << >>
    /\ rwFiles = {}
    /\ outside = {}

\* repoTreeFromSlothFS(mount/w).allChildren(): the repositories of the
\* manifest, by path.
RepoTreeChildren(w) == {r \in Repos : snapshot[w][r] # "-"}

\* repoTree.allFiles of repoTreeFromSlothFS(mount/w): path -> sha1.
AllFiles(w) ==
    [f \in {r \o <<"a">> : r \in RepoTreeChildren(w)} |-> snapshot[w][Dir(f)]]

\* findParentRepo, and fill for the R/W directory: the deepest repository
\* of S above r (<< >>: the root of the tree).
ParentRepo(r, S) ==
    LET above == {q \in S : q # r /\ IsPrefix(q, r)}
    IN  IF above = {} THEN << >>
        ELSE CHOOSE q \in above : \A q2 \in above : Len(q2) <= Len(q)

\* repoTree.children of the node at path t in the tree of the set S.
RepoChildren(t, S) == {r \in S : r # t /\ ParentRepo(r, S) = t}

\* The bytes of the path components, and a path as the string
\* filepath.Join makes of it.
Chars ==
    [p |-> <<112>>, s |-> <<115>>, t |-> <<116>>, a |-> <<97>>,
     w1 |-> <<119, 49>>, w2 |-> <<119, 50>>,
     m |-> <<109>>, m2 |-> <<109, 50>>, o |-> <<111>>, x |-> <<120>>,
     y |-> <<121>>, d |-> <<100>>, f |-> <<102>>]

RECURSIVE PathString(_)
PathString(path) ==
    IF path = << >> THEN << >>
    ELSE IF Len(path) = 1 THEN Chars[path[1]]
    ELSE Chars[path[1]] \o <<47>> \o PathString(Tail(path))

\* The mount point, and the absolute path string of a path.
Mount == <<"m">>

AbsString(path) == <<47>> \o PathString(path)

\* What the R/W directory can hold besides checkouts and the links of
\* earlier runs: a symlink to a sibling of the mount whose name starts with
\* the name of the mount, a symlink to a file elsewhere, an empty
\* directory, a regular file, and a symlink at p to a directory elsewhere.
RWFiles ==
    {[at |-> <<"x">>, kind |-> "link", target |-> <<"m2", "x">>, dir |-> FALSE],
     [at |-> <<"y">>, kind |-> "link", target |-> <<"o", "y">>, dir |-> FALSE],
     [at |-> <<"d">>, kind |-> "dir", target |-> << >>, dir |-> TRUE],
     [at |-> <<"f">>, kind |-> "file", target |-> << >>, dir |-> FALSE],
     [at |-> <<"p">>, kind |-> "link", target |-> <<"o">>, dir |-> TRUE]}

\* strings.HasPrefix, strings.TrimPrefix and strings.Index (0: not found).
HasPrefix(str, prefix) == IsPrefix(prefix, str)

TrimPrefix(str, prefix) ==
    IF HasPrefix(str, prefix) THEN SubSeq(str, Len(prefix) + 1, Len(str))
    ELSE str

Index(str, c) ==
    LET at == {i \in DOMAIN str : str[i] = c}
    IN  IF at = {} THEN 0 ELSE CHOOSE i \in at : \A j \in at : i <= j

\* trimMount: the first component of dir after mount + "/".
TrimMount(dir, mount) ==
    LET rest == TrimPrefix(dir, mount \o <<47>>)
        i == Index(rest, 47)
    IN  IF i # 0 THEN SubSeq(rest, 1, i - 1) ELSE rest

\* The target of a link made by an earlier run.
LinkTarget(l) == Mount \o << l.ws >> \o l.path

\* A variant of clearLinks that removes every symlink.
ClearLinksAll(ls, files) ==
    [names |-> {TrimMount(AbsString(LinkTarget(l)), AbsString(Mount)) :
                   l \in ls},
     removed |-> {e \in files : e.kind # "file"},
     kept |-> {e \in files : e.kind = "file"}]

\* clearLinks(mount, rw).  The walk removes every symlink whose target
\* string has the string mount as prefix and collects trimMount of the
\* targets; then os.Remove is tried on every directory below rw, deepest
\* first, which removes the empty ones.  The directories of the checkouts
\* hold .git; the directories made for links hold nothing else.
ClearLinks(ls, files) ==
    LET mount == AbsString(Mount)
        gone == {e \in files :
                    \/ e.kind = "link" /\ HasPrefix(AbsString(e.target), mount)
                    \/ e.kind = "dir"}
    IN  [names |-> {TrimMount(AbsString(LinkTarget(l)), mount) : l \in ls}
                   \cup {TrimMount(AbsString(e.target), mount) :
                            e \in {e \in gone : e.kind = "link"}},
         removed |-> gone,
         kept |-> files \ gone]

\* A variant of the loop that does not ask whether the old root exists.
OldRootsNoStat(wsNames, ro) ==
    {Mount \o << w >> : w \in {w \in Workspaces \ {ro} : Chars[w] \in wsNames}}

\* Checkout lines 206-213: the old roots the loop over wsNames can stop
\* at, as paths: filepath.Join(mount, nm) must exist and differ from ro.
OldRoots(wsNames, ro) ==
    {Mount \o << w >> : w \in {w \in mounted \ {ro} : Chars[w] \in wsNames}}
    \cup {Mount : nm \in {nm \in wsNames : nm = << >>}}

\* os.Symlink(filepath.Join(roRoot, path), filepath.Join(rwRoot, path)).
Link(ro, path) == [at |-> path, ws |-> ro, path |-> path]

\* What a call of createTreeLinks can do: the links made, and whether it
\* ended in a nil dereference.
NoLinks == [links |-> {}, panic |-> FALSE]

\* createTreeLinks on the nodes at path t of the two trees.  For a child r
\* of the RO node the loop over allRW stops at the first checkout that is r
\* (recurse) or lies below r (no link); without either, r is linked as a
\* whole.  The recursion takes rw.children[nm], which is nil when the
\* checkout r is not a direct child of the R/W node.
RECURSIVE CreateTreeLinks(_, _)
RECURSIVE TreeLinksOfChildren(_, _, _)
TreeLinksOfChild(r, t, ro) ==
    LET allRW == {k \in rwRepos : k # t /\ IsPrefix(t, k)}
        foundRecurse == r \in allRW
        foundCheckout == \E k \in allRW : k # r /\ IsPrefix(r, k)
        recursion == IF r \in RepoChildren(t, rwRepos)
                     THEN CreateTreeLinks(r, ro)
                     ELSE {[links |-> {}, panic |-> TRUE]}
    IN  (IF foundRecurse THEN recursion ELSE {})
        \cup (IF foundCheckout THEN {NoLinks} ELSE {})
        \cup (IF ~foundRecurse /\ ~foundCheckout
              THEN {[links |-> {Link(ro, r)}, panic |-> FALSE]} ELSE {})

TreeLinksOfChildren(kids, t, ro) ==
    IF kids = {} THEN {NoLinks}
    ELSE LET r == CHOOSE r \in kids : TRUE
         IN  {[links |-> x.links \cup y.links, panic |-> x.panic \/ y.panic] :
                 x \in TreeLinksOfChild(r, t, ro),
                 y \in TreeLinksOfChildren(kids \ {r}, t, ro)}

CreateTreeLinks(t, ro) ==
    TreeLinksOfChildren(RepoChildren(t, RepoTreeChildren(ro)), t, ro)

\* symlinkRepo(name): nothing when rw/name is a directory (os.Stat follows
\* the links made by createTreeLinks and the other links of the R/W
\* directory; a checkout below name makes rw/name a directory too),
\* otherwise one link per file of the repository.
SymlinkRepo(name, ro, treeLinks) ==
    IF \/ \E l \in treeLinks : IsPrefix(l.at, name)
       \/ \E k \in rwRepos : IsPrefix(name, k)
       \/ \E e \in ClearLinks({}, rwFiles).kept : e.dir /\ e.at = name
    THEN {}
    ELSE {Link(ro, name \o <<"a">>)}

\* createLinks: the tree links, then symlinkRepo for every repository of
\* the workspace that is not checked out in the R/W directory.
CreateLinks(ro, treeLinks) ==
    treeLinks \cup UNION {SymlinkRepo(r, ro, treeLinks) :
                             r \in RepoTreeChildren(ro) \ rwRepos}

\* x < y for strings.
RECURSIVE StrLess(_, _)
StrLess(x, y) ==
    IF y = << >> THEN FALSE
    ELSE IF x = << >> THEN TRUE
    ELSE IF Head(x) # Head(y) THEN Head(x) < Head(y)
    ELSE StrLess(Tail(x), Tail(y))

\* sort.Strings on a list of paths.
RECURSIVE SortStrings(_)
Insert(x, sorted) ==
    LET k == Cardinality({i \in DOMAIN sorted :
                             StrLess(PathString(sorted[i]), PathString(x))})
    IN  SubSeq(sorted, 1, k) \o << x >> \o SubSeq(sorted, k + 1, Len(sorted))

SortStrings(list) ==
    IF list = << >> THEN << >>
    ELSE Insert(Head(list), SortStrings(Tail(list)))

\* The orders in which range can go through the keys of a map.
RangeOrders(S) ==
    {o \in [1 .. Cardinality(S) -> S] : {o[i] : i \in DOMAIN o} = S}

\* The loop of changedFiles over newInfos, visiting the paths in order.
RECURSIVE ChangedFilesLoop(_, _, _, _)
ChangedFilesLoop(oldInfos, newInfos, order, acc) ==
    IF order = << >> THEN acc
    ELSE LET path == Head(order)
             next ==
                 IF path \notin DOMAIN oldInfos
                 THEN [acc EXCEPT !.added = Append(@, path)]
                 ELSE IF oldInfos[path] = "nil" \/ newInfos[path] = "nil"
                 THEN [acc EXCEPT !.changed = Append(@, path)]
                 ELSE IF oldInfos[path] # newInfos[path]
                 THEN [acc EXCEPT !.changed = Append(@, path)]
                 ELSE acc
         IN  ChangedFilesLoop(oldInfos, newInfos, Tail(order), next)

\* A variant of changedFiles that does not sort its results.
ChangedFilesUnsorted(oldInfos, newInfos, order) ==
    ChangedFilesLoop(oldInfos, newInfos, order,
                     [added |-> << >>, changed |-> << >>])

\* changedFiles: the paths only in newInfos, and those whose sha1 differs,
\* each list sorted.
ChangedFiles(oldInfos, newInfos, order) ==
    LET r == ChangedFilesLoop(oldInfos, newInfos, order,
                              [added |-> << >>, changed |-> << >>])
    IN  [added |-> SortStrings(r.added), changed |-> SortStrings(r.changed)]

\* The result paths are joined to the workspace.
JoinAll(ro, paths) == [i \in DOMAIN paths |-> << ro >> \o paths[i]]

NoInfos == [f \in {} |-> "-"]

\* os.MkdirAll(filepath.Dir(dest)) and os.Symlink(..., dest) for the link
\* l, with the entries files in the R/W directory: the link cannot be made
\* when dest exists or a regular file is in the way (Blocked), and it is
\* made outside the R/W directory when a component of dest is a symlink
\* to a directory elsewhere (Through: the path that is written).
Blocked(l, files) ==
    \E e \in files : \/ e.at = l.at
                     \/ e.kind = "file" /\ IsPrefix(e.at, l.at)

Through(l, files) ==
    {e.target \o SubSeq(l.at, Len(e.at) + 1, Len(l.at)) :
        e \in {e \in files : /\ e.kind = "link" /\ e.dir
                             /\ e.at # l.at /\ IsPrefix(e.at, l.at)}}

\* Checkout(mount/ro, rw).  The record of the call keeps the old file
\* infos it compared against (hasOld: an old root was found), the cause
\* of its error, and what clearLinks found and removed.
Checkout(ro) ==
    /\ Len(runs) < MaxRuns
    /\ LET cl == ClearLinks(links, rwFiles)
           olds == OldRoots(cl.names, ro)
           failed(cause) ==
               [ro |-> ro, err |-> TRUE, cause |-> cause, added |-> << >>,
                changed |-> << >>, old |-> NoInfos, hasOld |-> FALSE,
                names |-> cl.names, cleared |-> links, removed |-> cl.removed]
           made(S) == {l \in S : Through(l, cl.kept) = {}}
           written(S) == UNION {Through(l, cl.kept) : l \in S}
       IN  /\ rwFiles' = cl.kept
           /\ \E oldRoot \in IF olds = {} THEN {<< >>} ELSE olds :
              IF oldRoot = Mount \/ ro \notin mounted
              THEN \* repoTreeFromSlothFS fails after the links were cleared
                   /\ links' = {}
                   /\ outside' = outside
                   /\ runs' = Append(runs,
                         failed(IF ro \notin mounted THEN "ro" ELSE "old"))
              ELSE \E tl \in CreateTreeLinks(<< >>, ro),
                      order \in RangeOrders(DOMAIN AllFiles(ro)) :
                   LET oldInfos == IF oldRoot = << >> THEN NoInfos
                                   ELSE AllFiles(oldRoot[2])
                       files == CreateLinks(ro, tl.links) \ tl.links
                       treeOk == {l \in tl.links : ~Blocked(l, cl.kept)}
                       filesOk == {l \in files : ~Blocked(l, cl.kept)}
                   IN  IF tl.panic \/ treeOk # tl.links
                       THEN \E S \in SUBSET treeOk :
                            /\ links' = made(S)
                            /\ outside' = outside \cup written(S)
                            /\ runs' = Append(runs,
                                  failed(IF tl.panic THEN "nil" ELSE "exists"))
                       ELSE IF filesOk # files
                       THEN \E S \in SUBSET filesOk :
                            /\ links' = made(tl.links \cup S)
                            /\ outside' = outside \cup written(tl.links \cup S)
                            /\ runs' = Append(runs, failed("exists"))
                       ELSE LET res == ChangedFiles(oldInfos, AllFiles(ro),
                                                   order)
                                all == tl.links \cup files
                            IN  /\ links' = made(all)
                                /\ outside' = outside \cup written(all)
                                /\ runs' = Append(runs,
                                     [ro |-> ro, err |-> FALSE, cause |-> "",
                                      added |-> JoinAll(ro, res.added),
                                      changed |-> JoinAll(ro, res.changed),
                                      old |-> oldInfos,
                                      hasOld |-> oldRoot # << >>,
                                      names |-> cl.names, cleared |-> links,
                                      removed |-> cl.removed])
    /\ UNCHANGED << snapshot, mounted, rwRepos, notPopulateVars >>

PopulateNext == \E ro \in Workspaces : Checkout(ro)

(***************************************************************************)
(* Part 7.  The writable modification time                                 *)
(* (gitilesfs.go: gitilesNode.Utimens, gitilesNode.GetAttr)                *)
(***************************************************************************)

\* The threads of the FUSE server that handle setattr and getattr.
Callers == {"c1", "c2"}

\* The paths of two workspaces mounted from the manifest at revision v2.
MtimePaths == {<< n, "p" >> \o e : n \in Names, e \in {<<"a">>, <<"x">>}}

\* The gitilesNode a path leads to: the node cache gives every tree entry
\* with the same blob ID and execute bit the same node.
NodeOf(path) ==
    LET e == CHOOSE e \in {Trees["v2"][i] : i \in DOMAIN Trees["v2"]} :
                 e.Name = << path[3] >>
    IN  NodeCacheKey(e.ID, Xbit(e.Mode))

MtimeNodes == {NodeOf(path) : path \in MtimePaths}

\* A time.Time, as the words wall and ext of the struct.
Time(t) == [wall |-> t, ext |-> t]

\* The mtime of a new node, time.Unix(1, 0).
DefaultMtime == Time(1)

\* The times setattr is called with.
Times == {Time(2), Time(3)}

\* No time: a call that has not taken effect.
NoTime == [wall |-> 0, ext |-> 0]

IdleCall ==
    [op |-> "none", pc |-> "idle", node |-> << >>, arg |-> NoTime,
     val |-> NoTime]

\* A linearization state of one node: the current mtime, and for every
\* running call the value with which it took effect (NoTime: not yet).
NoEffects == [p \in Callers |-> NoTime]

\* The calls on node n that run in cs and have not taken effect in c.
Open(c, cs, n) ==
    {p \in Callers : cs[p].pc # "idle" /\ cs[p].node = n
                     /\ c.eff[p] = NoTime}

\* Call p takes effect in c.
TakeEffect(c, cs, p) ==
    IF cs[p].op = "utimens"
    THEN [cur |-> cs[p].arg, eff |-> [c.eff EXCEPT ![p] = cs[p].arg]]
    ELSE [cur |-> c.cur, eff |-> [c.eff EXCEPT ![p] = c.cur]]

\* Every state reachable from those of C by calls taking effect.
RECURSIVE LinClose(_, _, _)
LinClose(C, cs, n) ==
    LET more == C \cup UNION {{TakeEffect(c, cs, p) : p \in Open(c, cs, n)} :
                                 c \in C}
    IN  IF more = C THEN C ELSE LinClose(more, cs, n)

\* The states of C in which call p took effect with the result it returns.
LinReturn(C, cs, p) ==
    LET keep == {c \in C : /\ c.eff[p] # NoTime
                           /\ cs[p].op = "getattr" => c.eff[p] = cs[p].val}
    IN  {[c EXCEPT !.eff[p] = NoTime] : c \in keep}

MtimeInit ==
    /\ mtime = [n \in MtimeNodes |-> DefaultMtime]
    /\ mtimeMu = [n \in MtimeNodes |-> ""]
    /\ calls = [p \in Callers |-> IdleCall]
    /\ lastSet = [n \in MtimeNodes |-> DefaultMtime]
    /\ lin = [n \in MtimeNodes |->
                {[cur |-> DefaultMtime, eff |-> NoEffects]}]

\* No node is touched.
MtimeIdle ==
    /\ mtime = << >>
    /\ mtimeMu = << >>
    /\ calls = [p \in Callers |-> IdleCall]
    /\ lastSet = << >>
    /\ lin = << >>

\* setattr(path, mtime = t) reaches gitilesNode.Utimens.
UtimensCall(p, path, t) ==
    /\ calls[p].pc = "idle"
    /\ calls' = [calls EXCEPT ![p] =
                   [op |-> "utimens", pc |-> "lock", node |-> NodeOf(path),
                    arg |-> t, val |-> NoTime]]
    /\ lin' = [lin EXCEPT ![NodeOf(path)] = LinClose(@, calls', NodeOf(path))]
    /\ UNCHANGED << mtime, mtimeMu, lastSet, notMtimeVars >>

\* getattr(path) reaches gitilesNode.GetAttr.
GetAttrCall(p, path) ==
    /\ calls[p].pc = "idle"
    /\ calls' = [calls EXCEPT ![p] =
                   [op |-> "getattr", pc |-> "lock", node |-> NodeOf(path),
                    arg |-> NoTime, val |-> NoTime]]
    /\ lin' = [lin EXCEPT ![NodeOf(path)] = LinClose(@, calls', NodeOf(path))]
    /\ UNCHANGED << mtime, mtimeMu, lastSet, notMtimeVars >>

\* A variant of MtimeLock that does not wait for the mutex.
MtimeLockNoWait(p) ==
    /\ calls[p].pc = "lock"
    /\ mtimeMu' = [mtimeMu EXCEPT ![calls[p].node] = p]
    /\ calls' = [calls EXCEPT ![p].pc = "wall"]
    /\ UNCHANGED << mtime, lastSet, lin, notMtimeVars >>

\* n.mtimeMu.Lock()
MtimeLock(p) ==
    /\ calls[p].pc = "lock"
    /\ mtimeMu[calls[p].node] = ""
    /\ mtimeMu' = [mtimeMu EXCEPT ![calls[p].node] = p]
    /\ calls' = [calls EXCEPT ![p].pc = "wall"]
    /\ UNCHANGED << mtime, lastSet, lin, notMtimeVars >>

\* n.mtime = *mtime and t := n.mtime copy the struct word by word.
MtimeCopyWall(p) ==
    /\ calls[p].pc = "wall"
    /\ IF calls[p].op = "utimens"
       THEN /\ mtime' = [mtime EXCEPT ![calls[p].node].wall =
                                           calls[p].arg.wall]
            /\ calls' = [calls EXCEPT ![p].pc = "ext"]
       ELSE /\ calls' = [calls EXCEPT ![p].pc = "ext",
                                      ![p].val.wall =
                                           mtime[calls[p].node].wall]
            /\ UNCHANGED mtime
    /\ UNCHANGED << mtimeMu, lastSet, lin, notMtimeVars >>

MtimeCopyExt(p) ==
    /\ calls[p].pc = "ext"
    /\ IF calls[p].op = "utimens"
       THEN /\ mtime' = [mtime EXCEPT ![calls[p].node].ext =
                                           calls[p].arg.ext]
            /\ calls' = [calls EXCEPT ![p].pc = "unlock"]
       ELSE /\ calls' = [calls EXCEPT ![p].pc = "unlock",
                                      ![p].val.ext =
                                           mtime[calls[p].node].ext]
            /\ UNCHANGED mtime
    /\ UNCHANGED << mtimeMu, lastSet, lin, notMtimeVars >>

\* n.mtimeMu.Unlock()
MtimeUnlock(p) ==
    /\ calls[p].pc = "unlock"
    /\ mtimeMu' = [mtimeMu EXCEPT ![calls[p].node] = ""]
    /\ calls' = [calls EXCEPT ![p].pc = "ret"]
    /\ UNCHANGED << mtime, lastSet, lin, notMtimeVars >>

\* return fuse.OK from Utimens: the setattr completed.
UtimensReturn(p) ==
    /\ calls[p].pc = "ret"
    /\ calls[p].op = "utimens"
    /\ lastSet' = [lastSet EXCEPT ![calls[p].node] = calls[p].arg]
    /\ lin' = [lin EXCEPT ![calls[p].node] = LinReturn(@, calls, p)]
    /\ calls' = [calls EXCEPT ![p] = IdleCall]
    /\ UNCHANGED << mtime, mtimeMu, notMtimeVars >>

\* out.SetTimes(nil, &t, nil); return fuse.OK from GetAttr.
GetAttrReturn(p) ==
    /\ calls[p].pc = "ret"
    /\ calls[p].op = "getattr"
    /\ lin' = [lin EXCEPT ![calls[p].node] = LinReturn(@, calls, p)]
    /\ calls' = [calls EXCEPT ![p] = IdleCall]
    /\ UNCHANGED << mtime, mtimeMu, lastSet, notMtimeVars >>

MtimeNext ==
    \E p \in Callers :
        \/ \E path \in MtimePaths, t \in Times : UtimensCall(p, path, t)
        \/ \E path \in MtimePaths : GetAttrCall(p, path)
        \/ MtimeLock(p)
        \/ MtimeCopyWall(p)
        \/ MtimeCopyExt(p)
        \/ MtimeUnlock(p)
        \/ UtimensReturn(p)
        \/ GetAttrReturn(p)

(***************************************************************************)
(* Part 8.  The content addressable storage                                *)
(* (gitcache.go: CAS.path, CAS.Open, CAS.Write)                            *)
(***************************************************************************)

\* How many files CAS.Write creates in a run.
MaxCASWrites == 3

\* The goroutines in fetchFileExpensive (one per gitilesRoot and hash) and
\* the goroutines in openFile or handleLessRead.
CASWriters == {"w1", "w2"}

CASReaders == {"o1", "o2"}

\* The bytes of a blob, in the chunks a write(2) of them can stop between.
BlobData(h) == << << h, 1 >>, << h, 2 >> >>

IdleWrite == [pc |-> "idle", id |-> "none", ino |-> 0, err |-> FALSE]

IdleRead ==
    [pc |-> "idle", id |-> "none", fd |-> 0, ok |-> FALSE, got |-> << >>]

CASInit ==
    /\ casDir = [h \in Hashes |-> 0]
    /\ casInodes = << >>
    /\ casW = [w \in CASWriters |-> IdleWrite]
    /\ casR = [r \in CASReaders |-> IdleRead]

\* The storage is not part of the run.
CASIdle ==
    /\ casDir = << >>
    /\ casInodes = << >>
    /\ casW = << >>
    /\ casR = << >>

\* A variant of CASTempFile that creates the file at CAS.path(id).
CASCreateInPlace(w, h) ==
    /\ casW[w].pc \in {"idle", "done"}
    /\ Len(casInodes) < MaxCASWrites
    /\ casInodes' = Append(casInodes, << >>)
    /\ casDir' = [casDir EXCEPT ![h] = Len(casInodes) + 1]
    /\ casW' = [casW EXCEPT ![w] =
                  [pc |-> "write", id |-> h, ino |-> Len(casInodes) + 1,
                   err |-> FALSE]]
    /\ UNCHANGED << casR, notCasVars >>

\* CAS.Write(id, data): ioutil.TempFile(c.dir, "tmp") and f.Chmod(0444).
CASTempFile(w, h) ==
    /\ casW[w].pc \in {"idle", "done"}
    /\ Len(casInodes) < MaxCASWrites
    /\ casInodes' = Append(casInodes, << >>)
    /\ casW' = [casW EXCEPT ![w] =
                  [pc |-> "write", id |-> h, ino |-> Len(casInodes) + 1,
                   err |-> FALSE]]
    /\ UNCHANGED << casDir, casR, notCasVars >>

\* f.Write(data): the bytes reach the file chunk by chunk.
CASWriteChunk(w) ==
    /\ casW[w].pc = "write"
    /\ LET ino == casW[w].ino
           data == BlobData(casW[w].id)
           k == Len(casInodes[ino]) + 1
       IN  /\ casInodes' = [casInodes EXCEPT ![ino] = Append(@, data[k])]
           /\ casW' = [casW EXCEPT ![w].pc =
                          IF k = Len(data) THEN "rename" ELSE "write"]
    /\ UNCHANGED << casDir, casR, notCasVars >>

\* f.Write or f.Close fails: Write returns the error, the temporary file
\* stays.
CASWriteFail(w) ==
    /\ casW[w].pc = "write"
    /\ casW' = [casW EXCEPT ![w].pc = "done", ![w].err = TRUE]
    /\ UNCHANGED << casDir, casInodes, casR, notCasVars >>

\* f.Close(), os.MkdirAll(dir) and os.Rename(f.Name(), c.path(id)).
CASRename(w) ==
    /\ casW[w].pc = "rename"
    /\ casDir' = [casDir EXCEPT ![casW[w].id] = casW[w].ino]
    /\ casW' = [casW EXCEPT ![w].pc = "done"]
    /\ UNCHANGED << casInodes, casR, notCasVars >>

\* CAS.Open(id): os.Open(c.path(id)).
CASOpen(r, h) ==
    /\ casR[r].pc \in {"idle", "done"}
    /\ casR' = [casR EXCEPT ![r] =
                  IF casDir[h] = 0
                  THEN [IdleRead EXCEPT !.pc = "done", !.id = h]
                  ELSE [IdleRead EXCEPT !.pc = "read", !.id = h,
                                        !.fd = casDir[h], !.ok = TRUE]]
    /\ UNCHANGED << casDir, casInodes, casW, notCasVars >>

\* The file is read through the handle (f.ReadAt in handleLessRead, the
\* loopback file otherwise) and closed.
CASRead(r) ==
    /\ casR[r].pc = "read"
    /\ casR' = [casR EXCEPT ![r].pc = "done",
                            ![r].got = casInodes[casR[r].fd]]
    /\ UNCHANGED << casDir, casInodes, casW, notCasVars >>

CASNext ==
    \/ \E w \in CASWriters :
        \/ \E h \in Hashes : CASTempFile(w, h)
        \/ CASWriteChunk(w)
        \/ CASWriteFail(w)
        \/ CASRename(w)
    \/ \E r \in CASReaders :
        \/ \E h \in Hashes : CASOpen(r, h)
        \/ CASRead(r)

(***************************************************************************)
(* Part 9.  Copyfile and the attributes of the gitilesNodes                 *)
(* (manifestfs.go: manifestFSRoot.onMount; gitilesfs.go: gitilesNode)       *)
(***************************************************************************)

\* How many Copyfile directives the project of the manifest has.
MaxCopies == 2

\* The directives: the source is a file of the project or is missing; the
\* destination is new at the top or in the project, exists, or lies in a
\* directory that does not exist.
CopySources == {<<"a">>, <<"x">>, <<"nofile">>}

CopyDests == {<<"c">>, <<"p", "c">>, <<"p", "a">>, <<"q", "c">>}

CopyDirectives == [Src : CopySources, Dest : CopyDests]

\* gitilesRoot.onMount lines 404-449 for the entries of a tree: the node of
\* an entry is the one the node cache holds for its blob ID and execute
\* bit.
RECURSIVE AddEntries(_, _, _)
AddEntries(tree, path, entries) ==
    IF entries = << >> THEN tree
    ELSE LET e == Head(entries)
             p == path \o e.Name
         IN  AddEntries(NewChild(PathTo(tree, Dir(p)), p,
                                 FileEntry(NodeCacheKey(e.ID, Xbit(e.Mode)))),
                        path, Tail(entries))

\* manifestFSRoot.onMount lines 119-159 for one project.
ProjectTree(proj) ==
    ProjectMetaFiles(
        AddEntries(NewChild(PathTo(EmptyTree, Dir(proj.Path)), proj.Path,
                            DirEntry),
                   proj.Path, Trees[proj.Revision]),
        proj.Path, proj.Revision)

\* newGitilesNode for the entries of the tree: the fields of the ns.
NewNodes(entries) ==
    [k \in {NodeCacheKey(e.ID, Xbit(e.Mode)) :
               e \in {entries[i] : i \in DOMAIN entries}} |->
        LET e == entries[CHOOSE i \in DOMAIN entries :
                     /\ NodeCacheKey(entries[i].ID, Xbit(entries[i].Mode)) = k
                     /\ \A j \in 1 .. i - 1 :
                           NodeCacheKey(entries[j].ID,
                                        Xbit(entries[j].Mode)) # k]
        IN  [mode |-> e.Mode, size |-> Len(BlobData(e.ID)), id |-> e.ID,
             mtime |-> DefaultMtime]]

\* What a setattr request can ask to change: chmod, chown, truncate (which
\* can carry the new mtime too), and utimens with one time or both.
SetAttrRequests ==
    {{"mode"}, {"owner"}, {"size"}, {"size", "mtime"}, {"mode", "mtime"},
     {"atime"}, {"mtime"}, {"atime", "mtime"}}

NoSetattr ==
    [path |-> << >>, valid |-> {}, status |-> "", t |-> DefaultMtime]

CopyInit ==
    /\ cpTodo \in UNION {[1 .. k -> CopyDirectives] : k \in 0 .. MaxCopies}
    /\ cpDone = << >>
    /\ cpTree = ProjectTree(ProjectOf("v2", cpTodo))
    /\ cpErr = ""
    /\ cpNodes = NewNodes(Trees["v2"])
    /\ cpLast = NoSetattr

\* No workspace is part of the run.
CopyIdle ==
    /\ cpTodo = << >>
    /\ cpDone = << >>
    /\ cpTree = EmptyTree
    /\ cpErr = ""
    /\ cpNodes = << >>
    /\ cpLast = NoSetattr

\* manifestFSRoot.onMount lines 165-181: the next Copyfile of the project;
\* an error ends onMount.
CopyfileNext ==
    /\ cpTodo # << >>
    /\ cpErr = ""
    /\ LET r == CopyfileStep(cpTree, <<"p">>, Head(cpTodo))
       IN  /\ cpTree' = r.tree
           /\ cpErr' = r.err
           /\ cpDone' = IF r.err = "" THEN Append(cpDone, Head(cpTodo))
                         ELSE cpDone
    /\ cpTodo' = Tail(cpTodo)
    /\ UNCHANGED << cpNodes, cpLast, notCopyVars >>

\* onMount has returned without error.
CopyMounted == cpTodo = << >> /\ cpErr = ""

\* The files of the workspace that are gitilesNodes.
CopyFiles == {q \in DOMAIN cpTree : cpTree[q].kind = "file"}

\* gitilesNode has no Chmod, Chown or Truncate: the calls go to the
\* embedded default node, which does not implement them.
DefaultNodeOp(ns, n) == [nodes |-> ns, code |-> "ENOSYS"]

\* gitilesNode.Utimens: the mtime is stored if one is given.
Utimens(ns, n, valid, t) ==
    [nodes |-> IF "mtime" \in valid
               THEN [ns EXCEPT ![n].mtime = t] ELSE ns,
     code |-> "OK"]

\* A variant of the setattr request that stores the times first.
SetAttrTimesFirst(ns, n, valid, t) ==
    LET u == IF valid \cap {"atime", "mtime"} # {}
             THEN Utimens(ns, n, valid, t)
             ELSE [nodes |-> ns, code |-> "OK"]
    IN  IF valid \cap {"mode", "owner", "size"} # {}
        THEN DefaultNodeOp(u.nodes, n) ELSE u

\* The setattr request on the node n: the changes it asks for are handed
\* to Chmod, Chown, Truncate and Utimens in this order, up to the first
\* one that fails.
SetAttr(ns, n, valid, t) ==
    IF valid \cap {"mode", "owner", "size"} # {}
    THEN DefaultNodeOp(ns, n)
    ELSE IF valid \cap {"atime", "mtime"} # {}
    THEN Utimens(ns, n, valid, t)
    ELSE [nodes |-> ns, code |-> "OK"]

\* gitilesNode.GetAttr and the xattr user.gitsha1 of the file at path,
\* with the inode number of its node.
GetAttr(path) ==
    LET n == cpTree[path].ref
    IN  [ino |-> n, size |-> cpNodes[n].size, mode |-> cpNodes[n].mode,
         mtime |-> cpNodes[n].mtime, gitsha1 |-> cpNodes[n].id]

\* A setattr request on a file of the mounted workspace.
SetAttrCall(path, valid, t) ==
    /\ CopyMounted
    /\ path \in CopyFiles
    /\ LET r == SetAttr(cpNodes, cpTree[path].ref, valid, t)
       IN  /\ cpNodes' = r.nodes
           /\ cpLast' = [path |-> path, valid |-> valid, status |-> r.code,
                         t |-> t]
    /\ UNCHANGED << cpTodo, cpDone, cpTree, cpErr, notCopyVars >>

CopyNext ==
    \/ CopyfileNext
    \/ \E path \in CopyFiles, valid \in SetAttrRequests, t \in Times :
          SetAttrCall(path, valid, t)

(***************************************************************************)
(* Part 10.  The path of a repository in the git cache                      *)
(* (gitcache.go: gitCache.gitPath)                                          *)
(***************************************************************************)

\* Strings are sequences of characters.
DotGit == <<".", "g", "i", "t">>

\* c.dir, the root of the git cache.
GitCacheDir == <<"/", "r">>

\* The clone URLs of the model: a host name or a bracketed address, with
\* or without a port; a path of one or two components that ends as it is,
\* in the suffix .git, in the component .git or in a slash.
URLParts ==
    [bracket : BOOLEAN, port : {"", "1", "2"},
     comps : {<<"a">>, <<"a", "b">>}, tail : {"", ".git", "/.git", "/"}]

\* The host and the path of the URL as they are written.
HostString(u) ==
    (IF u.bracket THEN <<"[", "v", "]">> ELSE <<"h">>)
    \o (IF u.port = "" THEN << >> ELSE <<":", u.port>>)

RECURSIVE PathOf(_)
PathOf(comps) ==
    IF comps = << >> THEN << >>
    ELSE <<"/", Head(comps)>> \o PathOf(Tail(comps))

TailString(tail) ==
    CASE tail = "" -> << >>
      [] tail = ".git" -> DotGit
      [] tail = "/.git" -> <<"/">> \o DotGit
      [] tail = "/" -> <<"/">>

URLString(u) ==
    <<"s", ":", "/", "/">> \o HostString(u) \o PathOf(u.comps)
    \o TailString(u.tail)

\* strings.Index and strings.LastIndex of a character (0: not found).
IndexFrom(str, c, from) ==
    LET at == {i \in from .. Len(str) : str[i] = c}
    IN  IF at = {} THEN 0 ELSE CHOOSE i \in at : \A j \in at : i <= j

LastIndex(str, c) ==
    LET at == {i \in DOMAIN str : str[i] = c}
    IN  IF at = {} THEN 0 ELSE CHOOSE i \in at : \A j \in at : j <= i

\* url.Parse for scheme://host/path: the host and the path.
UrlParse(u) ==
    LET start == IndexFrom(u, "/", 1) + 2
        slash == IndexFrom(u, "/", start)
    IN  IF slash = 0
        THEN [Host |-> SubSeq(u, start, Len(u)), Path |-> << >>]
        ELSE [Host |-> SubSeq(u, start, slash - 1),
              Path |-> SubSeq(u, slash, Len(u))]

\* net.SplitHostPort: the host, or an error for a host without port.
SplitHostPort(hostport) ==
    LET i == LastIndex(hostport, ":")
        end == IndexFrom(hostport, "]", 1)
    IN  IF i = 0 THEN [host |-> << >>, err |-> TRUE]
        ELSE IF hostport[1] = "["
        THEN IF end = 0 \/ end + 1 # i THEN [host |-> << >>, err |-> TRUE]
             ELSE [host |-> SubSeq(hostport, 2, end - 1), err |-> FALSE]
        ELSE IF IndexFrom(hostport, ":", 1) # i
        THEN [host |-> << >>, err |-> TRUE]
        ELSE [host |-> SubSeq(hostport, 1, i - 1), err |-> FALSE]

\* The elements of a path between its slashes.
RECURSIVE Elements(_)
Elements(p) ==
    LET i == IndexFrom(p, "/", 1)
    IN  IF i = 0 THEN << p >>
        ELSE << SubSeq(p, 1, i - 1) >> \o Elements(SubSeq(p, i + 1, Len(p)))

RECURSIVE JoinElements(_)
JoinElements(els) ==
    IF els = << >> THEN << >>
    ELSE IF Len(els) = 1 THEN Head(els)
    ELSE Head(els) \o <<"/">> \o JoinElements(Tail(els))

\* path.Clean: empty and "." elements go, ".." takes the element before it
\* away; the empty path is ".".
RECURSIVE CleanElements(_, _)
CleanElements(els, acc) ==
    IF els = << >> THEN acc
    ELSE LET e == Head(els)
         IN  IF e = << >> \/ e = <<".">>
             THEN CleanElements(Tail(els), acc)
             ELSE IF e = <<".", ".">> /\ acc # << >>
                     /\ acc[Len(acc)] # <<".", ".">>
             THEN CleanElements(Tail(els), SubSeq(acc, 1, Len(acc) - 1))
             ELSE CleanElements(Tail(els), Append(acc, e))

PathClean(p) ==
    LET rooted == p # << >> /\ p[1] = "/"
        els == CleanElements(Elements(p), << >>)
        kept == IF rooted
                THEN SelectSeq(els, LAMBDA e : e # <<".", ".">>) ELSE els
        out == (IF rooted THEN <<"/">> ELSE << >>) \o JoinElements(kept)
    IN  IF out = << >> THEN <<".">> ELSE out

\* path.Base: the last element of the path.
PathBase(p) ==
    LET els == SelectSeq(Elements(p), LAMBDA e : e # << >>)
    IN  IF p = << >> THEN <<".">>
        ELSE IF els = << >> THEN <<"/">>
        ELSE els[Len(els)]

\* path.Dir: the path up to its last slash, cleaned.
PathDir(p) == PathClean(SubSeq(p, 1, LastIndex(p, "/")))

\* filepath.Join: the elements that are not empty, joined and cleaned.
FilepathJoin(els) ==
    PathClean(JoinElements(SelectSeq(els, LAMBDA e : e # << >>)))

\* A variant of gitPath that keeps the port in the host.
GitPathKeepPort(u) ==
    LET parsed == UrlParse(u)
        p == PathClean(parsed.Path)
        q == IF PathBase(p) = DotGit THEN PathDir(p) ELSE p
    IN  FilepathJoin(<< GitCacheDir, parsed.Host, q \o DotGit >>)

\* gitCache.gitPath.
GitPath(u) ==
    LET parsed == UrlParse(u)
        split == SplitHostPort(parsed.Host)
        host == IF ~split.err THEN split.host ELSE parsed.Host
        p == PathClean(parsed.Path)
        q == IF PathBase(p) = DotGit THEN PathDir(p) ELSE p
    IN  FilepathJoin(<< GitCacheDir, host, q \o DotGit >>)

GitPathInit ==
    /\ gpIn \in URLParts \X URLParts
    /\ gpOut = << >>

GitPathIdle ==
    /\ gpIn = << >>
    /\ gpOut = << >>

\* gitCache.Open and OpenLocal ask for the paths of the two URLs.
GitPathCall ==
    /\ gpOut = << >>
    /\ gpOut' = << GitPath(URLString(gpIn[1])), GitPath(URLString(gpIn[2])) >>
    /\ UNCHANGED << gpIn, notGitPathVars >>

GitPathNext == GitPathCall

(***************************************************************************)
(* Part 11.  The tree cache (treecache.go: TreeCache.Get, Add, add)         *)
(***************************************************************************)

\* The goroutines that fetch trees (manifestfs.go fetchTreeIDs).
TreeCallers == {"g1", "g2"}

\* The commits and trees of the model, as hex strings.  A tree carries its
\* own ID; the third one carries an ID that is no SHA1.
TreeIDs == {"c1", "c2", "c3", "t1", "t2"}

TreeT1 == [ID |-> "t1", Entries |-> <<"a">>]

TreeT2 == [ID |-> "t2", Entries |-> <<"a", "b">>]

TreeBad == [ID |-> "nohex", Entries |-> << >>]

\* What the callers add: the tree of a commit under the ID of the commit,
\* and a tree under its own ID.
TreeAdds ==
    {<<"c1", TreeT1>>, <<"c2", TreeT2>>, <<"c3", TreeBad>>, <<"t1", TreeT1>>}

\* json.MarshalIndent and json.Unmarshal of a gitiles.Tree.
TreeMarshal(tree) == << "{", tree.ID, tree.Entries, "}" >>

TreeUnmarshal(content) == [ID |-> content[2], Entries |-> content[3]]

\* parseID: the hash of a hex string of 20 bytes, or an error.
ParseID(str) ==
    IF str \in TreeIDs THEN [id |-> str, err |-> FALSE]
    ELSE [id |-> "", err |-> TRUE]

NoBytes == << >>

IdleAdd == [pc |-> "idle", id |-> "", tree |-> TreeBad, err |-> FALSE]

TreeCacheInit ==
    /\ tcDir = [h \in TreeIDs |-> NoBytes]
    /\ tcCalls = [c \in TreeCallers |-> IdleAdd]
    /\ tcGot = << >>

\* The tree cache is not part of the run.
TreeCacheIdle ==
    /\ tcDir = << >>
    /\ tcCalls = << >>
    /\ tcGot = << >>

\* TreeCache.Get: the file is read and decoded.
TreeCacheGet(dir, id) ==
    IF dir[id] = NoBytes THEN [tree |-> TreeBad, err |-> TRUE]
    ELSE [tree |-> TreeUnmarshal(dir[id]), err |-> FALSE]

\* TreeCache.add: the encoded tree is written to a temporary file, which
\* is renamed to path(id).
TreeCacheAddFile(dir, id, tree) == [dir EXCEPT ![id] = TreeMarshal(tree)]

\* A caller enters TreeCache.Add(id, tree).
TreeAddCall(c, id, tree) ==
    /\ tcCalls[c].pc = "idle"
    /\ tcCalls' = [tcCalls EXCEPT ![c] =
                     [pc |-> "first", id |-> id, tree |-> tree, err |-> FALSE]]
    /\ UNCHANGED << tcDir, tcGot, notTreeCacheVars >>

\* Add line 80: c.add(id, tree), which can fail at every file operation.
TreeAddFirst(c) ==
    /\ tcCalls[c].pc = "first"
    /\ \/ /\ tcDir' = TreeCacheAddFile(tcDir, tcCalls[c].id, tcCalls[c].tree)
          /\ tcCalls' = [tcCalls EXCEPT ![c].pc =
                           IF tcCalls[c].id # tcCalls[c].tree.ID
                           THEN "second" ELSE "done"]
       \/ /\ tcCalls' = [tcCalls EXCEPT ![c] =
                           [@ EXCEPT !.pc = "done", !.err = TRUE]]
          /\ tcDir' = tcDir
    /\ UNCHANGED << tcGot, notTreeCacheVars >>

\* A variant of Add that stores the tree under the given ID only.
TreeAddSecondSkip(c) ==
    /\ tcCalls[c].pc = "second"
    /\ tcCalls' = [tcCalls EXCEPT ![c].pc = "done"]
    /\ UNCHANGED << tcDir, tcGot, notTreeCacheVars >>

\* Add lines 84-90: the tree is added under its own ID as well.
TreeAddSecond(c) ==
    /\ tcCalls[c].pc = "second"
    /\ LET treeID == ParseID(tcCalls[c].tree.ID)
       IN  IF treeID.err
           THEN /\ tcCalls' = [tcCalls EXCEPT ![c] =
                                 [@ EXCEPT !.pc = "done", !.err = TRUE]]
                /\ tcDir' = tcDir
           ELSE \/ /\ tcDir' = TreeCacheAddFile(tcDir, treeID.id,
                                                tcCalls[c].tree)
                   /\ tcCalls' = [tcCalls EXCEPT ![c].pc = "done"]
                \/ /\ tcCalls' = [tcCalls EXCEPT ![c] =
                                    [@ EXCEPT !.pc = "done", !.err = TRUE]]
                   /\ tcDir' = tcDir
    /\ UNCHANGED << tcGot, notTreeCacheVars >>

\* Add returns.
TreeAddReturn(c) ==
    /\ tcCalls[c].pc = "done"
    /\ tcCalls' = [tcCalls EXCEPT ![c] = IdleAdd]
    /\ UNCHANGED << tcDir, tcGot, notTreeCacheVars >>

\* A TreeCache.Get(id) call.
TreeGetCall(id) ==
    /\ tcGot' = << [id |-> id, res |-> TreeCacheGet(tcDir, id)] >>
    /\ UNCHANGED << tcDir, tcCalls, notTreeCacheVars >>

TreeCacheNext ==
    \/ \E c \in TreeCallers, a \in TreeAdds : TreeAddCall(c, a[1], a[2])
    \/ \E c \in TreeCallers :
          \/ TreeAddFirst(c)
          \/ TreeAddSecond(c)
          \/ TreeAddReturn(c)
    \/ \E id \in TreeIDs : TreeGetCall(id)

(***************************************************************************)
(* Part 12.  The parallel traversals of Checkout (part_014 lines 215-249,   *)
(* repotree.go repoTreeFromSlothFS and fillFromSlothFS)                     *)
(***************************************************************************)

\* The three producers of Checkout's channel: the old snapshot, the R/W
\* tree and the new snapshot.
Traversals == {"old", "rw", "ro"}

\* The traversals that read a snapshot with repoTreeFromSlothFS.
SlothFSTraversals == {"old", "ro"}

\* root.allChildren() of a snapshot: the repositories whose tree.json is
\* read, each by a goroutine of its own.
TreeChildren == {"", "p"}

\* A traversal that was not started, or has not started its goroutines.
NoFills == [c \in TreeChildren |-> "idle"]

TravStart(x) ==
    [pc |-> IF x = "rw" THEN "walk" ELSE "manifest",
     fills |-> NoFills, errs |-> << >>, got |-> 0]

TravNone == [pc |-> "done", fills |-> NoFills, errs |-> << >>, got |-> 0]

\* Checkout lines 216-242: the channel of capacity 3 and the three
\* producers; without an old root the first value is sent at once.
TravInit ==
    \E hasOld \in BOOLEAN :
        /\ ckTrav = [x \in Traversals |->
                       IF x = "old" /\ ~hasOld THEN TravNone
                       ELSE TravStart(x)]
        /\ ckErrs = IF hasOld THEN << >> ELSE << "nil" >>
        /\ ckMain = [pc |-> "collect", i |-> 0, err |-> "nil"]

\* No Checkout runs.
TravIdle ==
    /\ ckTrav = [x \in Traversals |-> TravNone]
    /\ ckErrs = << >>
    /\ ckMain = [pc |-> "returned", i |-> 0, err |-> "nil"]

\* repoTreeFromSlothFS lines 145-157: parse the manifest; on error return
\* it, and the goroutine of Checkout sends it; otherwise start one
\* goroutine for each repository.
TravManifest(x) ==
    /\ x \in SlothFSTraversals
    /\ ckTrav[x].pc = "manifest"
    /\ \E ok \in BOOLEAN :
         IF ok
           THEN /\ ckTrav' = [ckTrav EXCEPT
                                ![x].pc = "collect",
                                ![x].fills = [c \in TreeChildren |-> "running"]]
                /\ UNCHANGED ckErrs
           ELSE /\ ckTrav' = [ckTrav EXCEPT ![x].pc = "done"]
                /\ ckErrs' = Append(ckErrs, "err")
    /\ UNCHANGED << ckMain, notTravVars >>

\* repoTreeFromSlothFS lines 153-156: fillFromSlothFS in its goroutine, and
\* the send of its result.
FillFromSlothFS(x, c) ==
    /\ x \in SlothFSTraversals
    /\ ckTrav[x].fills[c] = "running"
    /\ \E res \in {"nil", "err"} :
         ckTrav' = [ckTrav EXCEPT ![x].fills[c] = "done",
                                  ![x].errs = Append(@, res)]
    /\ UNCHANGED << ckErrs, ckMain, notTravVars >>

\* repoTreeFromSlothFS lines 159-165: receive one result; return the first
\* error, or the tree after the last result; the goroutine of Checkout
\* sends what was returned.
TravCollect(x) ==
    /\ x \in SlothFSTraversals
    /\ ckTrav[x].pc = "collect"
    /\ ckTrav[x].errs # << >>
    /\ LET res == Head(ckTrav[x].errs)
           n == ckTrav[x].got + 1
       IN  IF res = "err"
             THEN /\ ckTrav' = [ckTrav EXCEPT ![x].pc = "done",
                                              ![x].errs = Tail(@),
                                              ![x].got = n]
                  /\ ckErrs' = Append(ckErrs, "err")
             ELSE IF n = Cardinality(TreeChildren)
               THEN /\ ckTrav' = [ckTrav EXCEPT ![x].pc = "done",
                                                ![x].errs = Tail(@),
                                                ![x].got = n]
                    /\ ckErrs' = Append(ckErrs, "nil")
               ELSE /\ ckTrav' = [ckTrav EXCEPT ![x].errs = Tail(@),
                                                ![x].got = n]
                    /\ UNCHANGED ckErrs
    /\ UNCHANGED << ckMain, notTravVars >>

\* Checkout lines 233-237: newRepoTree(rw) and the send of its result.
NewRepoTree ==
    /\ ckTrav["rw"].pc = "walk"
    /\ \E res \in {"nil", "err"} :
         /\ ckTrav' = [ckTrav EXCEPT !["rw"].pc = "done"]
         /\ ckErrs' = Append(ckErrs, res)
    /\ UNCHANGED << ckMain, notTravVars >>

\* Checkout lines 244-249: receive one value from errs; return on the
\* first error, go on to createLinks after cap(errs) values.
CheckoutReceive ==
    /\ ckMain.pc = "collect"
    /\ ckErrs # << >>
    /\ ckErrs' = Tail(ckErrs)
    /\ LET n == ckMain.i + 1
       IN  IF Head(ckErrs) = "err"
             THEN ckMain' = [pc |-> "returned", i |-> n, err |-> "err"]
             ELSE ckMain' = [pc |-> IF n = 3 THEN "links" ELSE "collect",
                             i |-> n, err |-> "nil"]
    /\ UNCHANGED << ckTrav, notTravVars >>

\* Checkout lines 251-269: createLinks and changedFiles, and the return.
CheckoutLinks ==
    /\ ckMain.pc = "links"
    /\ \E e \in {"nil", "err"} :
         ckMain' = [ckMain EXCEPT !.pc = "returned", !.err = e]
    /\ UNCHANGED << ckTrav, ckErrs, notTravVars >>

TravNext ==
    \/ \E x \in Traversals : TravManifest(x)
    \/ \E x \in Traversals, c \in TreeChildren : FillFromSlothFS(x, c)
    \/ \E x \in Traversals : TravCollect(x)
    \/ NewRepoTree
    \/ CheckoutReceive
    \/ CheckoutLinks

(***************************************************************************)
(* Part 13.  The trees of a manifest: fetchTreeMap (manifestfs.go), the     *)
(* requests of gitiles/client.go and gitilesRoot.onMount                    *)
(***************************************************************************)

\* mf.Project: the projects of the manifest and their revisions.
TreeProjects == {"p1", "p2"}

ProjectRevision == [p \in TreeProjects |-> IF p = "p1" THEN "c1" ELSE "c2"]

\* The bodies the server can answer a tree request with: whether the body
\* starts with the XSS tag, whether the rest is JSON of a Tree, and the
\* types of the entries it lists.  status is the HTTP status.
TreeResponses ==
    { [status |-> 200, xss |-> TRUE, json |-> TRUE, types |-> {"blob"}],
      [status |-> 200, xss |-> TRUE, json |-> TRUE,
       types |-> {"blob", "commit"}],
      [status |-> 200, xss |-> TRUE, json |-> TRUE,
       types |-> {"blob", "tree"}],
      [status |-> 200, xss |-> FALSE, json |-> TRUE, types |-> {"blob"}],
      [status |-> 200, xss |-> TRUE, json |-> FALSE, types |-> {}],
      [status |-> 500, xss |-> FALSE, json |-> FALSE, types |-> {}] }

NoTree == [types |-> {"none"}]

\* Service.get and Service.getJSON: an error for a status other than 200,
\* for a body without the XSS tag and for a body json.Unmarshal refuses;
\* otherwise the decoded Tree.  RepoService.GetTree returns a Tree with
\* the error, too.
GetJSON(resp) ==
    IF resp.status # 200 THEN [tree |-> [types |-> {}], err |-> "status"]
    ELSE IF ~resp.xss THEN [tree |-> [types |-> {}], err |-> "xss"]
    ELSE IF ~resp.json THEN [tree |-> [types |-> {}], err |-> "json"]
    ELSE [tree |-> [types |-> resp.types], err |-> "nil"]

\* A response that keeps to the protocol.
WellFormed(resp) ==
    resp.status = 200 /\ resp.xss /\ resp.json
    /\ resp.types \subseteq {"blob", "commit"}

NoResult == [resp |-> NoTree, err |-> "none"]

\* NewManifestFS calls fetchTreeMap, which starts a goroutine for each
\* project.  The tree cache may hold trees of earlier mounts.
TreeFetchInit ==
    /\ ftCache \in [{ProjectRevision[p] : p \in TreeProjects} ->
                      {NoTree, [types |-> {"blob"}],
                       [types |-> {"blob", "commit"}]}]
    /\ ftPc = [p \in TreeProjects |-> "get"]
    /\ ftRes = [p \in TreeProjects |-> NoResult]
    /\ ftMount = "none"

\* No workspace is constructed.
TreeFetchIdle ==
    /\ ftCache = [c \in {ProjectRevision[p] : p \in TreeProjects} |-> NoTree]
    /\ ftPc = [p \in TreeProjects |-> "sent"]
    /\ ftRes = [p \in TreeProjects |-> NoResult]
    /\ ftMount = "none"

\* fetchTreeMap lines 228-241: c.Tree.Get(revID); a tree that is found is
\* sent as it is.  There is no local repository, so a miss goes on to the
\* server.
TreeMapGet(p) ==
    /\ ftPc[p] = "get"
    /\ IF ftCache[ProjectRevision[p]] # NoTree
         THEN /\ ftRes' = [ftRes EXCEPT ![p] =
                             [resp |-> ftCache[ProjectRevision[p]],
                              err |-> "nil"]]
              /\ ftPc' = [ftPc EXCEPT ![p] = "sent"]
         ELSE /\ ftPc' = [ftPc EXCEPT ![p] = "remote"]
              /\ UNCHANGED ftRes
    /\ UNCHANGED << ftCache, ftMount, notTreeFetchVars >>

\* fetchTreeMap lines 243-255: repoService.GetTree, c.Tree.Add when there
\* is a tree and no error, and the send of the result.
TreeMapRemote(p) ==
    /\ ftPc[p] = "remote"
    /\ \E resp \in TreeResponses :
         LET got == GetJSON(resp)
         IN  /\ ftCache' = IF got.err = "nil"
                             THEN [ftCache EXCEPT ![ProjectRevision[p]] =
                                     got.tree]
                             ELSE ftCache
             /\ ftRes' = [ftRes EXCEPT ![p] =
                            [resp |-> got.tree, err |-> got.err]]
    /\ ftPc' = [ftPc EXCEPT ![p] = "sent"]
    /\ UNCHANGED << ftMount, notTreeFetchVars >>

\* fetchTreeMap lines 259-274 and NewManifestFS lines 75-78: after all
\* results were received, an error of any project fails the construction
\* of the workspace.  Otherwise gitilesRoot.onMount lines 388-399 runs for
\* each tree: it panics on an entry that is neither a commit nor a blob.
TreeMapMount ==
    /\ ftMount = "none"
    /\ \A p \in TreeProjects : ftPc[p] = "sent"
    /\ ftMount' =
         IF \E p \in TreeProjects : ftRes[p].err # "nil" THEN "err"
         ELSE IF \E p \in TreeProjects :
                    ~(ftRes[p].resp.types \subseteq {"blob", "commit"})
           THEN "panic"
         ELSE "ok"
    /\ UNCHANGED << ftCache, ftPc, ftRes, notTreeFetchVars >>

TreeFetchNext ==
    \/ \E p \in TreeProjects : TreeMapGet(p)
    \/ \E p \in TreeProjects : TreeMapRemote(p)
    \/ TreeMapMount

(***************************************************************************)
(* Part 14.  The children of the mount root by name, for commands on any    *)
(* name (part_019: OnMount, configNode.Symlink, configNode.Unlink)          *)
(***************************************************************************)

\* The names a command of config/ can be given.
RootNames == {"config", "ws1", "ws2"}

\* What the root inode can have under a name: nothing, the configNode, a
\* workspace, or a workspace that holds the ERROR file only.
RootChildren == {"none", "configdir", "workspace", "error"}

\* No command ran on the name.
NoCmd == [op |-> "none", pc |-> "idle", status |-> "", serving |-> FALSE]

\* A Symlink call that has read and parsed its target.
StartCmd(serving) ==
    [op |-> "symlink", pc |-> "newfs", status |-> "", serving |-> serving]

\* OnMount lines 76-88: config/ is attached, and configureWorkspaces
\* starts one Symlink goroutine for each file of the manifest directory,
\* under the name of the file.
RootNamesInit ==
    /\ rnRoot = [n \in RootNames |->
                   IF n = "config" THEN "configdir" ELSE "none"]
    /\ rnConfig = {}
    /\ \E files \in SUBSET RootNames :
          rnCmds = [n \in RootNames |->
                      IF n \in files THEN StartCmd(FALSE) ELSE NoCmd]

\* No multi-manifest file system is mounted.
RootNamesIdle ==
    /\ rnRoot = [n \in RootNames |-> "none"]
    /\ rnConfig = {}
    /\ rnCmds = [n \in RootNames |-> NoCmd]

\* No handler of config/ runs.
RootQuiet == \A n \in RootNames : rnCmds[n].pc \in {"idle", "done"}

\* The kernel resolves the path config/ to the configNode: that is the
\* child of the root under the name "config" (Symlink ends with an
\* EntryNotify on its name, so no older entry is kept).
ConfigReachable == rnRoot["config"] = "configdir"

\* symlink(2) on config/<n>: the kernel holds the lock of config/ over the
\* handler and refuses a name that config/ has.
CfgSymlinkCall(n) ==
    /\ RootQuiet
    /\ ConfigReachable
    /\ n \notin rnConfig
    /\ rnCmds' = [rnCmds EXCEPT ![n] = StartCmd(TRUE)]
    /\ UNCHANGED << rnRoot, rnConfig, notRootNamesVars >>

\* Symlink lines 153-174: an error of ReadFile, Parse or NewManifestFS
\* ends the call; nothing was attached.
CfgNewManifestFS(n) ==
    /\ rnCmds[n].pc = "newfs"
    /\ \E ok \in BOOLEAN :
         rnCmds' = [rnCmds EXCEPT ![n] =
                      IF ok THEN [@ EXCEPT !.pc = "attach"]
                      ELSE [@ EXCEPT !.pc = "done", !.status = "error"]]
    /\ UNCHANGED << rnRoot, rnConfig, notRootNamesVars >>

\* Symlink line 177: c.root.Inode().NewChild(name, true, fs).  Inode.
\* addChild stores the child under the name, whatever was there.
CfgAttachRoot(n) ==
    /\ rnCmds[n].pc = "attach"
    /\ rnRoot' = [rnRoot EXCEPT ![n] = "workspace"]
    /\ rnCmds' = [rnCmds EXCEPT ![n].pc = "config"]
    /\ UNCHANGED << rnConfig, notRootNamesVars >>

\* Symlink lines 183-187: c.Inode().NewChild(name, false, ...).
CfgAttachConfig(n) ==
    /\ rnCmds[n].pc = "config"
    /\ rnConfig' = rnConfig \cup {n}
    /\ rnCmds' = [rnCmds EXCEPT ![n].pc = "mount"]
    /\ UNCHANGED << rnRoot, notRootNamesVars >>

\* Symlink lines 189-221: onMount, the ERROR file when it fails, the
\* EntryNotify and the return of OK.
CfgOnMount(n) ==
    /\ rnCmds[n].pc = "mount"
    /\ \E ok \in BOOLEAN :
         rnRoot' = [rnRoot EXCEPT ![n] = IF ok THEN @ ELSE "error"]
    /\ rnCmds' = [rnCmds EXCEPT ![n] = [@ EXCEPT !.pc = "done",
                                                 !.status = "OK"]]
    /\ UNCHANGED << rnConfig, notRootNamesVars >>

\* unlink(2) on config/<n>, configNode.Unlink: the kernel found the name
\* in config/ and holds the lock of config/.
CfgUnlink(n) ==
    /\ RootQuiet
    /\ ConfigReachable
    /\ n \in rnConfig
    /\ IF rnRoot[n] = "none"
         THEN /\ rnCmds' = [rnCmds EXCEPT ![n] =
                              [op |-> "unlink", pc |-> "done",
                               status |-> "ENOENT", serving |-> TRUE]]
              /\ UNCHANGED << rnRoot, rnConfig >>
         ELSE /\ rnRoot' = [rnRoot EXCEPT ![n] = "none"]
              /\ rnConfig' = rnConfig \ {n}
              /\ rnCmds' = [rnCmds EXCEPT ![n] =
                              [op |-> "unlink", pc |-> "done",
                               status |-> "OK", serving |-> TRUE]]
    /\ UNCHANGED notRootNamesVars

RootNamesNext ==
    \E n \in RootNames :
        \/ CfgSymlinkCall(n)
        \/ CfgNewManifestFS(n)
        \/ CfgAttachRoot(n)
        \/ CfgAttachConfig(n)
        \/ CfgOnMount(n)
        \/ CfgUnlink(n)

(***************************************************************************)
(* Part 15.  The mount of a manifest with nested projects                   *)
(* (manifestfs.go manifestFSRoot.onMount lines 96-160)                      *)
(***************************************************************************)

\* The projects a manifest can list: their paths and the files of their
\* trees.  P has a file below the path of S, S one below the path of T.
NestedPaths ==
    [P |-> <<"p">>, S |-> <<"p", "s">>, T |-> <<"p", "s", "t">>,
     Q |-> <<"q">>]

NestedFiles ==
    [P |-> << <<"a">>, <<"s", "x">> >>,
     S |-> << <<"b">>, <<"t", "y">> >>,
     T |-> << <<"c">> >>,
     Q |-> << <<"a">> >>]

NestedProjects == DOMAIN NestedPaths

\* The root inode of the gitilesRoot of a project, and a file of it.
SubRootEntry(proj) == [kind |-> "dir", ref |-> 0, data |-> proj]

SubFileEntry(proj) == [kind |-> "file", ref |-> 0, data |-> proj]

\* len(strings.Split(p, "/")) of a path.
Depth(proj) == Len(NestedPaths[proj])

\* Every order of the projects, as the keys of a map can come.
AnyOrder(projs) == RangeOrders(projs)

\* onMount lines 96-105 and the loops of lines 119-120: the projects by
\* depth; within a depth they come in the order of the map r.trees.
ByDepthOrders(projs) ==
    {o \in RangeOrders(projs) :
        \A i \in DOMAIN o, j \in DOMAIN o :
            i < j => Depth(o[i]) <= Depth(o[j])}

\* NewManifestFS has fetched the trees of the projects of the manifest.
NestedInit ==
    /\ nsManifest \in SUBSET NestedProjects \ {{}}
    /\ nsTodo = << >>
    /\ nsTree = EmptyTree
    /\ nsMount = [pc |-> "start", order |-> << >>, files |-> << >>]

\* No manifest is mounted.
NestedIdle ==
    /\ nsManifest = {}
    /\ nsTodo = << >>
    /\ nsTree = EmptyTree
    /\ nsMount = [pc |-> "done", order |-> << >>, files |-> << >>]

\* onMount lines 96-105: byDepth.
NestedByDepth ==
    /\ nsMount.pc = "start"
    /\ nsTodo' \in ByDepthOrders(nsManifest)
    /\ nsMount' = [nsMount EXCEPT !.pc = "attach"]
    /\ UNCHANGED << nsManifest, nsTree, notNestedVars >>

\* onMount lines 121-155: the directories above the path are made where
\* they are missing, and the root of the project is attached at its path
\* with NewChild, in the place of what was there.
NestedAttach ==
    /\ nsMount.pc = "attach"
    /\ nsTodo # << >>
    /\ LET proj == Head(nsTodo)
           path == NestedPaths[proj]
       IN  /\ nsTree' = NewChild(PathTo(nsTree, Dir(path)), path,
                                 SubRootEntry(proj))
           /\ nsMount' = [pc |-> "fill",
                          order |-> Append(nsMount.order, proj),
                          files |-> NestedFiles[proj]]
    /\ UNCHANGED << nsManifest, nsTodo, notNestedVars >>

\* gitilesRoot.onMount, called at line 156: the next entry of the tree of
\* the project is attached below the root of the project.
NestedEntry ==
    /\ nsMount.pc = "fill"
    /\ nsMount.files # << >>
    /\ LET proj == Head(nsTodo)
           p == NestedPaths[proj] \o Head(nsMount.files)
       IN  nsTree' = NewChild(PathTo(nsTree, Dir(p)), p, SubFileEntry(proj))
    /\ nsMount' = [nsMount EXCEPT !.files = Tail(@)]
    /\ UNCHANGED << nsManifest, nsTodo, notNestedVars >>

\* The project is mounted; the next one follows, or the loop ends.
NestedProjectDone ==
    /\ nsMount.pc = "fill"
    /\ nsMount.files = << >>
    /\ nsTodo' = Tail(nsTodo)
    /\ nsMount' = [nsMount EXCEPT !.pc =
                      IF Tail(nsTodo) = << >> THEN "done" ELSE "attach"]
    /\ UNCHANGED << nsManifest, nsTree, notNestedVars >>

NestedNext ==
    \/ NestedByDepth
    \/ NestedAttach
    \/ NestedEntry
    \/ NestedProjectDone

(***************************************************************************)
(* The specifications.                                                     *)
(***************************************************************************)

InitFetch == FetchInit /\ MultiIdle /\ CloneFlagIdle /\ PopulateIdle
    /\ MtimeIdle
    /\ CASIdle
    /\ CopyIdle
    /\ GitPathIdle
    /\ TreeCacheIdle
    /\ TravIdle
    /\ TreeFetchIdle
    /\ RootNamesIdle
    /\ NestedIdle

NextFetch == FetchNext

SpecFetch == InitFetch /\ [][NextFetch]_vars

InitMulti == MultiInit /\ FetchIdle /\ CloneFlagIdle /\ PopulateIdle
    /\ MtimeIdle
    /\ CASIdle
    /\ CopyIdle
    /\ GitPathIdle
    /\ TreeCacheIdle
    /\ TravIdle
    /\ TreeFetchIdle
    /\ RootNamesIdle
    /\ NestedIdle

NextMulti == MultiNext

SpecMulti == InitMulti /\ [][NextMulti]_vars

InitCloneFlag == CloneFlagInit /\ FetchIdle /\ MultiIdle /\ PopulateIdle
    /\ MtimeIdle
    /\ CASIdle
    /\ CopyIdle
    /\ GitPathIdle
    /\ TreeCacheIdle
    /\ TravIdle
    /\ TreeFetchIdle
    /\ RootNamesIdle
    /\ NestedIdle

NextCloneFlag == CloneFlagNext

SpecCloneFlag == InitCloneFlag /\ [][NextCloneFlag]_vars

InitPopulate == PopulateInit /\ FetchIdle /\ MultiIdle /\ CloneFlagIdle
    /\ MtimeIdle
    /\ CASIdle
    /\ CopyIdle
    /\ GitPathIdle
    /\ TreeCacheIdle
    /\ TravIdle
    /\ TreeFetchIdle
    /\ RootNamesIdle
    /\ NestedIdle

NextPopulate == PopulateNext

SpecPopulate == InitPopulate /\ [][NextPopulate]_vars

InitMtime ==
    MtimeInit /\ FetchIdle /\ MultiIdle /\ CloneFlagIdle /\ PopulateIdle
    /\ CASIdle
    /\ CopyIdle
    /\ GitPathIdle
    /\ TreeCacheIdle
    /\ TravIdle
    /\ TreeFetchIdle
    /\ RootNamesIdle
    /\ NestedIdle

NextMtime == MtimeNext

SpecMtime == InitMtime /\ [][NextMtime]_vars

InitCAS ==
    CASInit /\ FetchIdle /\ MultiIdle /\ CloneFlagIdle /\ PopulateIdle
    /\ MtimeIdle
    /\ CopyIdle
    /\ GitPathIdle
    /\ TreeCacheIdle
    /\ TravIdle
    /\ TreeFetchIdle
    /\ RootNamesIdle
    /\ NestedIdle

NextCAS == CASNext

SpecCAS == InitCAS /\ [][NextCAS]_vars

\* The reads with repeated reads and a fair scheduler; there is no local
\* repository, so every expensive fetch asks the server.
InitFetchFair == InitFetch /\ gitDir = {}

SpecFetchFair == InitFetchFair /\ [][FetchRetryNext]_vars /\ FetchFairness

\* Checkout on a R/W directory that was used before: it can hold the link
\* of an earlier run against w1 and entries of its user.
InitRW ==
    /\ snapshot \in {[w \in Workspaces |->
                         [r \in Repos |-> IF w = "w1" THEN
                                             (IF r = <<"p">> THEN "s1" ELSE "-")
                                         ELSE IF r \in S THEN "s2" ELSE "-"]] :
                      S \in {{<<"p">>}, {<<"p", "s">>},
                             {<<"p">>, <<"p", "t">>}}}
    /\ mounted \in {{"w2"}, {"w1", "w2"}}
    /\ rwFiles \in SUBSET RWFiles
    /\ rwRepos \in IF \E e \in rwFiles : e.at = <<"p">>
                   THEN {{}} ELSE {{}, {<<"p", "t">>}}
    /\ links \in IF rwRepos = {} /\ ~\E e \in rwFiles : e.at = <<"p">>
                 THEN {{}, {Link("w1", <<"p">>)}} ELSE {{}}
    /\ runs = << >>
    /\ outside = {}
    /\ FetchIdle /\ MultiIdle /\ CloneFlagIdle /\ MtimeIdle /\ CASIdle
    /\ CopyIdle
    /\ GitPathIdle
    /\ TreeCacheIdle
    /\ TravIdle
    /\ TreeFetchIdle
    /\ RootNamesIdle
    /\ NestedIdle

SpecRW == InitRW /\ [][PopulateNext]_vars

InitCopy ==
    CopyInit /\ FetchIdle /\ MultiIdle /\ CloneFlagIdle /\ PopulateIdle
    /\ MtimeIdle /\ CASIdle
    /\ GitPathIdle
    /\ TreeCacheIdle
    /\ TravIdle
    /\ TreeFetchIdle
    /\ RootNamesIdle
    /\ NestedIdle

NextCopy == CopyNext

SpecCopy == InitCopy /\ [][NextCopy]_vars

InitGitPath ==
    GitPathInit /\ FetchIdle /\ MultiIdle /\ CloneFlagIdle /\ PopulateIdle
    /\ MtimeIdle /\ CASIdle /\ CopyIdle
    /\ TreeCacheIdle
    /\ TravIdle
    /\ TreeFetchIdle
    /\ RootNamesIdle
    /\ NestedIdle

NextGitPath == GitPathNext

SpecGitPath == InitGitPath /\ [][NextGitPath]_vars

InitTreeCache ==
    TreeCacheInit /\ FetchIdle /\ MultiIdle /\ CloneFlagIdle /\ PopulateIdle
    /\ MtimeIdle /\ CASIdle /\ CopyIdle /\ GitPathIdle
    /\ TravIdle
    /\ TreeFetchIdle
    /\ RootNamesIdle
    /\ NestedIdle

NextTreeCache == TreeCacheNext

SpecTreeCache == InitTreeCache /\ [][NextTreeCache]_vars

InitTrav ==
    /\ TravInit
    /\ FetchIdle /\ MultiIdle /\ CloneFlagIdle /\ PopulateIdle /\ MtimeIdle
    /\ CASIdle /\ CopyIdle /\ GitPathIdle /\ TreeCacheIdle
    /\ TreeFetchIdle
    /\ RootNamesIdle
    /\ NestedIdle

NextTrav == TravNext

SpecTrav == InitTrav /\ [][NextTrav]_vars

InitTreeFetch ==
    /\ TreeFetchInit
    /\ FetchIdle /\ MultiIdle /\ CloneFlagIdle /\ PopulateIdle /\ MtimeIdle
    /\ CASIdle /\ CopyIdle /\ GitPathIdle /\ TreeCacheIdle /\ TravIdle
    /\ RootNamesIdle
    /\ NestedIdle

NextTreeFetch == TreeFetchNext

SpecTreeFetch == InitTreeFetch /\ [][NextTreeFetch]_vars

InitRootNames ==
    /\ RootNamesInit
    /\ FetchIdle /\ MultiIdle /\ CloneFlagIdle /\ PopulateIdle /\ MtimeIdle
    /\ CASIdle /\ CopyIdle /\ GitPathIdle /\ TreeCacheIdle /\ TravIdle
    /\ TreeFetchIdle
    /\ NestedIdle

NextRootNames == RootNamesNext

SpecRootNames == InitRootNames /\ [][NextRootNames]_vars

InitNested ==
    /\ NestedInit
    /\ FetchIdle /\ MultiIdle /\ CloneFlagIdle /\ PopulateIdle /\ MtimeIdle
    /\ CASIdle /\ CopyIdle /\ GitPathIdle /\ TreeCacheIdle /\ TravIdle
    /\ TreeFetchIdle /\ RootNamesIdle

NextNested == NestedNext

SpecNested == InitNested /\ [][NextNested]_vars

(***************************************************************************)
(* Properties of the multi-manifest file system and of the clone flag.     *)
(***************************************************************************)

\* The file entries of the attached workspaces, as << name, path >>.
FilePaths ==
    {np \in UNION {{<< n, q >> : q \in DOMAIN rootCh[n]} : n \in DOMAIN rootCh} :
        rootCh[np[1]][np[2]].kind = "file"}

NodeAt(np) == rootCh[np[1]][np[2]].ref

\* C2 (as stated): any two paths of any two workspaces whose blob hashes
\* and execute bits are equal are backed by the same node, and so have the
\* same inode number, whether the workspaces were created one after the
\* other or in parallel.
C2_SameBlobSameNode ==
    \A a \in FilePaths, b \in FilePaths :
        /\ nodes[NodeAt(a)].id = nodes[NodeAt(b)].id
        /\ Xbit(nodes[NodeAt(a)].mode) = Xbit(nodes[NodeAt(b)].mode)
        => NodeAt(a) = NodeAt(b)

\* The command on n returned from Symlink with the given cause of failure.
SymlinkDone(n, cause) ==
    /\ cmds[n].op = "symlink"
    /\ cmds[n].pc = "done"
    /\ cmds[n].cause = cause

\* The tree of n is a directory whose only child is the data file ERROR.
OnlyError(n) ==
    /\ n \in DOMAIN rootCh
    /\ DOMAIN rootCh[n] = {<<"ERROR">>}
    /\ rootCh[n][<<"ERROR">>].kind = "data"
    /\ rootCh[n][<<"ERROR">>].data # ""

\* C5 (as stated): when a project fails to produce a tree, the workspace
\* appears at /<ws> as a directory whose single child is the file ERROR.
C5_TreeFailureShowsError ==
    \A n \in Names : SymlinkDone(n, "tree") => OnlyError(n)

\* C5 (amended): when a project fails to produce a tree, the create
\* command returns EIO and attaches nothing: neither /<ws> nor config/<ws>
\* exists afterwards, and so no ERROR file either.
C5_TreeFailureAttachesNothing ==
    \A n \in Names :
        SymlinkDone(n, "tree") =>
            /\ cmds[n].status = "EIO"
            /\ n \notin DOMAIN rootCh
            /\ n \notin DOMAIN configCh

\* A create command failed on its trees while another workspace is there.
C5_Witness ==
    \E n \in Names :
        /\ SymlinkDone(n, "tree")
        /\ DOMAIN rootCh # {}

\* C6 (as stated): the clone flag of a project is off with a clone-depth;
\* otherwise the first Repo rule matching the path decides; otherwise on.
C6_DocumentedCloneFlag ==
    cfOut # << >> =>
        cfOut[1] = DocumentedProjectClone(cfIn.CloneDepth, cfIn.Path,
                                          cfIn.RepoCloneOption)

\* C8 (as stated): a create command whose construction fails, on the trees
\* or on a copy or link, returns EIO; it returns OK only when nothing failed.
C8_FailureReturnsEIO ==
    \A n \in Names :
        /\ cmds[n].op = "symlink"
        /\ cmds[n].pc = "done"
        => /\ cmds[n].cause \in {"tree", "mount"} => cmds[n].status = "EIO"
           /\ cmds[n].status = "OK" => cmds[n].cause = ""

\* C8 (amended): a create command returns EIO only when a tree could not
\* be fetched; when a copy or link fails after the workspace was attached
\* it returns OK and the workspace holds only the ERROR file; an unparsable
\* target gives EINVAL, an unreadable one the error of the read.
C8_StatusByCause ==
    \A n \in Names :
        /\ cmds[n].op = "symlink"
        /\ cmds[n].pc = "done"
        => /\ cmds[n].cause \in {"", "read", "parse", "tree", "mount"}
           /\ cmds[n].cause = "tree" <=> cmds[n].status = "EIO"
           /\ cmds[n].cause = "parse" <=> cmds[n].status = "EINVAL"
           /\ cmds[n].cause = "read" <=> cmds[n].status = "ENOENT"
           /\ cmds[n].cause \in {"", "mount"} <=> cmds[n].status = "OK"
           /\ cmds[n].cause = "mount" => OnlyError(n)

\* A create command returned OK although a copy failed.
C8_Witness ==
    \E n \in Names : SymlinkDone(n, "mount") /\ cmds[n].status = "OK"

\* C9: when the mount fails after the workspace was attached, /<ws> is a
\* directory whose only child is the file ERROR holding the message; no
\* entry built before the failure is left.
C9_FailedMountOnlyError ==
    \A n \in Names :
        /\ cmds[n].op = "symlink"
        /\ cmds[n].pc \in {"notify", "done"}
        /\ cmds[n].cause = "mount"
        => /\ cmds[n].err # ""
           /\ n \in DOMAIN rootCh
           /\ rootCh[n] = ErrorTree(cmds[n].err)

\* A mount failed on a copy whose source is missing, entries were attached
\* before, and the command returned.
C9_Witness ==
    \E n \in Names :
        /\ SymlinkDone(n, "mount")
        /\ cmds[n].err = "Copyfile: source does not exist"
        /\ nodes # << >>
        /\ OnlyError(n)

\* C10: a create command whose target does not parse returns EINVAL and
\* changes nothing: the trees of / and config/, the node cache and the
\* manifest directory are as before, and neither /<ws> nor config/<ws>
\* exists afterwards.
C10_ParseFailureChangesNothing ==
    [][\A n \in Names :
          /\ cmds[n].pc = "read"
          /\ cmds[n].bytes \notin ValidBytes \cup {"unreadable"}
          /\ cmds'[n] # cmds[n]
          => /\ cmds'[n].pc = "done"
             /\ cmds'[n].status = "EINVAL"
             /\ UNCHANGED << rootCh, configCh, nodes, nodeMap, manifestDir >>
             /\ n \notin DOMAIN rootCh'
             /\ n \notin DOMAIN configCh']_vars

\* A create command failed to parse while another workspace is attached
\* and persisted.
C10_Witness ==
    \E n \in Names, m \in Names :
        /\ SymlinkDone(n, "parse")
        /\ cmds[n].status = "EINVAL"
        /\ m \in DOMAIN rootCh
        /\ manifestDir[m] \in ValidBytes

(***************************************************************************)
(* Properties of populate.                                                 *)
(***************************************************************************)

\* C7 (as stated): a Checkout that follows a successful Checkout of the
\* same workspace, nothing else having changed, returns an empty ADDED and
\* an empty CHANGED list.
C7_SecondCheckoutReportsNothing ==
    \A i \in 1 .. (Len(runs) - 1) :
        /\ runs[i].ro = runs[i + 1].ro
        /\ ~runs[i].err
        /\ ~runs[i + 1].err
        => /\ runs[i + 1].added = << >>
           /\ runs[i + 1].changed = << >>

(***************************************************************************)
(* Properties of the configuration plane, continued.                       *)
(***************************************************************************)

\* The paths of the files of all projects of the manifest.
ManifestFiles(bytes) ==
    LET ps == Parse(bytes)
    IN  UNION {{ps[i].Path \o Trees[ps[i].Revision][j].Name :
                   j \in DOMAIN Trees[ps[i].Revision]} : i \in DOMAIN ps}

\* The workspace n holds every file of the manifest and its metadata.
Complete(n, bytes) ==
    /\ n \in DOMAIN rootCh
    /\ \A f \in ManifestFiles(bytes) :
          f \in DOMAIN rootCh[n] /\ rootCh[n][f].kind = "file"
    /\ << ".slothfs", "manifest.xml" >> \in DOMAIN rootCh[n]

\* A create command on n is between its call and its return.
Creating(n) ==
    /\ cmds[n].op = "symlink"
    /\ cmds[n].pc \notin {"idle", "done"}

\* C11 (as stated): while a create command runs and requests are served,
\* what a lookup finds under / is never a partially built workspace: /<ws>
\* is absent, completely attached, or holds only the ERROR file.
C11_NoPartialWorkspaceVisible ==
    \A n \in Names :
        Creating(n) /\ cmds[n].serving /\ n \in DOMAIN rootCh =>
            Complete(n, cmds[n].bytes) \/ OnlyError(n)

\* C11 (amended): the entry config/<ws> exists only while /<ws> is
\* attached, and when the create command returns success the workspace is
\* completely attached or holds only the ERROR file; during the command
\* /<ws> is attached empty and filled step by step.
C11_CompleteAtReturn ==
    \A n \in Names :
        /\ n \in DOMAIN configCh => n \in DOMAIN rootCh
        /\ cmds[n].op = "symlink" /\ cmds[n].pc = "done"
           /\ cmds[n].status = "OK"
           => IF cmds[n].err = "" THEN Complete(n, cmds[n].bytes)
              ELSE OnlyError(n)

\* A create command returned success for a manifest with two files while
\* another create command has attached its workspace and not filled it.
C11_Witness ==
    \E n \in Names, m \in Names :
        /\ SymlinkDone(n, "")
        /\ cmds[n].bytes = "xmlB"
        /\ Complete(n, "xmlB")
        /\ Creating(m)
        /\ cmds[m].serving
        /\ m \in DOMAIN configCh
        /\ ~Complete(m, cmds[m].bytes)

\* The manifest.xml of workspace n parses to the manifest of bytes.
ManifestFileParsesTo(n, bytes) ==
    LET f == << ".slothfs", "manifest.xml" >>
    IN  /\ n \in DOMAIN rootCh
        /\ f \in DOMAIN rootCh[n]
        /\ rootCh[n][f].kind = "data"
        /\ rootCh[n][f].data \in ValidBytes \cup MarshalledBytes
        /\ Parse(rootCh[n][f].data) = Parse(bytes)

\* readlink(config/<n>) is ../<n>/.slothfs/manifest.xml.
ReadlinkOk(n) ==
    /\ n \in DOMAIN configCh
    /\ configCh[n] = << "..", n, ".slothfs", "manifest.xml" >>

C13_UnlinkedNotFound ==
    \A n \in Names :
        cmds[n].op = "unlink" /\ cmds[n].pc = "done" /\ cmds[n].status = "OK"
        => /\ ~StatFinds(n)
           /\ n \notin DOMAIN configCh

\* An unlink returned success while the kernel still has the entry of the
\* other workspace, which it looked up.
C13_Witness ==
    \E n \in Names, m \in Names :
        /\ cmds[n].op = "unlink" /\ cmds[n].pc = "done"
        /\ cmds[n].status = "OK"
        /\ m \in kcache

\* C14: whenever no create or destroy command is in progress, the file
\* <manifestDir>/<ws> exists and holds the supplied manifest bytes if and
\* only if <ws> was mounted successfully and has not been destroyed.
C14_FileIffMounted ==
    Quiet =>
        \A n \in Names :
            (manifestDir[n] # "" /\ manifestDir[n] = cmds[n].bytes)
                <=> MountedOk(n)

\* The workspaces a lookup finds under / with their trees attached.
MountedWorkspaces == {n \in DOMAIN rootCh : ~OnlyError(n)}

\* The start-up after a restart is over and no command came since.
Restarted ==
    /\ boot.n > 0
    /\ Quiet
    /\ \A n \in Names : ~cmds[n].serving

\* C15: after a restart one workspace is mounted for each file of the
\* manifest directory, and the set of workspaces equals the set that was
\* mounted successfully and not destroyed before the restart.
C15_RestartRestoresWorkspaces ==
    Restarted =>
        /\ \A n \in Names : manifestDir[n] # "" => n \in MountedWorkspaces
        /\ MountedWorkspaces = boot.before

(***************************************************************************)
(* Properties of the modification time.                                    *)
(***************************************************************************)

\* C16 (as stated): the mtime a getattr returns equals the value of the
\* last setattr on the node that completed, or 1 second past the epoch if
\* none did, also when setattr and getattr calls run concurrently.
C16_GetattrReturnsLastCompleted ==
    [][\A p \in Callers :
          GetAttrReturn(p) => calls[p].val = lastSet[calls[p].node]]_vars

\* C16 (amended): the setattr and getattr calls on a node are
\* linearizable: there is an order of the calls so far, respecting the
\* order of calls that do not overlap, in which every getattr returned the
\* value of the setattr before it, or 1 second past the epoch if there is
\* none; a getattr never returns a mixture of two values.
C16_MtimeLinearizable ==
    \A n \in MtimeNodes : lin[n] # {}

\* A getattr through workspace ws2 is about to return the value that a
\* setattr through workspace ws1 stored; the setattr has not returned, and
\* the last setattr that returned set another value.
C16_Witness ==
    \E p \in Callers, q \in Callers :
        /\ calls[p].op = "getattr" /\ calls[p].pc = "ret"
        /\ calls[q].op = "utimens" /\ calls[q].pc = "ret"
        /\ calls[q].node = calls[p].node
        /\ calls[p].val = calls[q].arg
        /\ calls[p].val # lastSet[calls[p].node]
        /\ lin[calls[p].node] # {}

(***************************************************************************)
(* Properties of the clone hint.                                           *)
(***************************************************************************)

\* The project of workspace n that holds path p.
ProjectAt(n, p) ==
    LET ps == Parse(cmds[n].bytes)
    IN  ps[CHOOSE i \in DOMAIN ps : IsPrefix(ps[i].Path, p)]

\* The clone hint the options give the file at path p of workspace n.
RuleClone(n, p) ==
    LET proj == ProjectAt(n, p)
        rel == SubSeq(p, Len(proj.Path) + 1, Len(p))
    IN  /\ proj.CloneURL # ""
        /\ DocumentedProjectClone(proj.CloneDepth, proj.Path, RepoCloneOption)
        /\ FirstMatch(FileCloneOption, rel, TRUE)

\* C17: for each FileNode of a mounted workspace the clone hint is true if
\* and only if a clone URL is configured for its repository and the first
\* File rule matching the file path, if any, does not switch it off.
C17_CloneHintFollowsRules ==
    \A n \in Names :
        MountedOk(n) =>
            \A f \in ManifestFiles(cmds[n].bytes) :
                nodes[rootCh[n][f].ref].clone = RuleClone(n, f)

(***************************************************************************)
(* Properties of the content addressable storage.                          *)
(***************************************************************************)

\* C18: a reader that opens hash h while a write of h is in progress finds
\* no file or a file with the complete bytes of the blob, never an empty or
\* partly written one, so every read returns the bytes of the blob named
\* by the hash.
C18_ReadersSeeWholeBlobs ==
    \A r \in CASReaders :
        /\ casR[r].pc = "read" => casInodes[casR[r].fd] = BlobData(casR[r].id)
        /\ casR[r].pc = "done" /\ casR[r].ok =>
               casR[r].got = BlobData(casR[r].id)

\* A reader has read hash h through a handle it opened while a second
\* write of h had written part of its temporary file, and another reader
\* found h absent while its first write was in progress.
C18_Witness ==
    \E r \in CASReaders, q \in CASReaders, w \in CASWriters :
        /\ casR[r].pc = "done" /\ casR[r].ok
        /\ casR[r].got = BlobData(casR[r].id)
        /\ casW[w].pc = "write" /\ casW[w].id = casR[r].id
        /\ Len(casInodes[casW[w].ino]) = 1
        /\ casW[w].ino > casR[r].fd
        /\ casR[q].pc = "done" /\ ~casR[q].ok /\ casR[q].id # casR[r].id
        /\ \E v \in CASWriters :
              casW[v].pc = "rename" /\ casW[v].id = casR[q].id

(***************************************************************************)
(* Properties of populate.                                                 *)
(***************************************************************************)

\* The elements of a list.
Range(list) == {list[i] : i \in DOMAIN list}

\* The list of paths ascends strictly in the order of strings.
SortedPaths(list) ==
    \A i \in 1 .. (Len(list) - 1) :
        StrLess(PathString(list[i]), PathString(list[i + 1]))

\* C19: a Checkout with a previous snapshot old and a new snapshot new
\* returns as ADDED exactly the paths of new that are absent from old and
\* as CHANGED exactly the paths in both whose hashes differ, each list
\* sorted lexicographically, and no path is in both lists.
C19_ChangeSetExact ==
    \A i \in DOMAIN runs :
        ~runs[i].err /\ runs[i].hasOld =>
            LET ro == runs[i].ro
                new == AllFiles(ro)
                old == runs[i].old
            IN  /\ Range(runs[i].added) =
                       {<< ro >> \o f : f \in DOMAIN new \ DOMAIN old}
                /\ Range(runs[i].changed) =
                       {<< ro >> \o f :
                           f \in {g \in DOMAIN new \cap DOMAIN old :
                                     old[g] # new[g]}}
                /\ SortedPaths(runs[i].added)
                /\ SortedPaths(runs[i].changed)
                /\ Range(runs[i].added) \cap Range(runs[i].changed) = {}

\* A Checkout against a previous snapshot returned two added paths and a
\* changed one.
C19_Witness ==
    \E i \in DOMAIN runs :
        /\ ~runs[i].err
        /\ runs[i].hasOld
        /\ Len(runs[i].added) = 2
        /\ Len(runs[i].changed) = 1

\* The file f lies inside a checkout of the R/W directory.
InCheckout(f) == \E k \in rwRepos : IsPrefix(k, f)

\* The path f under the R/W directory leads through a symlink to f in the
\* workspace ro.
Resolves(f, ro) ==
    \E l \in links : IsPrefix(l.at, f) /\ l.ws = ro /\ l.path = l.at

\* C20: after a successful Checkout(RO, RW) every file of the new snapshot
\* that does not lie inside a writable checkout is reachable at the same
\* path under RW and resolves to the file in RO, also a file of a project
\* that has a writable checkout somewhere below it.
C20_AllFilesReachable ==
    Len(runs) > 0 /\ ~runs[Len(runs)].err =>
        LET ro == runs[Len(runs)].ro
        IN  \A f \in DOMAIN AllFiles(ro) :
                ~InCheckout(f) => Resolves(f, ro)

(***************************************************************************)
(* Properties of Checkout on a R/W directory that holds other entries.     *)
(***************************************************************************)

\* The target string of the entry e begins with the string of the mount.
IntoMount(e) ==
    e.kind = "link" /\ HasPrefix(AbsString(e.target), AbsString(Mount))

C22_NothingOutsideRW == outside = {}

\* The links the run i found in the R/W directory all pointed into
\* workspaces that no longer exist.
OldWorkspaceGone(i) ==
    /\ runs[i].names # {}
    /\ \A nm \in runs[i].names :
           nm # << >> /\ ~\E w \in mounted : Chars[w] = nm

C24_CopyIsSameNode ==
    CopyMounted =>
        \A i \in DOMAIN cpDone :
            /\ cpTree[cpDone[i].Dest].kind = "file"
            /\ GetAttr(cpDone[i].Dest) = GetAttr(<<"p">> \o cpDone[i].Src)

\* A copy was mounted, and an mtime set through its destination is the
\* mtime of its source.
C24_Witness ==
    /\ CopyMounted
    /\ cpDone # << >>
    /\ cpLast.path = cpDone[1].Dest
    /\ cpLast.status = "OK"
    /\ "mtime" \in cpLast.valid
    /\ GetAttr(<<"p">> \o cpDone[1].Src).mtime = cpLast.t

\* C25: the construction of the workspace fails when the source of a
\* copyfile does not exist in its project, when its destination exists
\* already, or when more than the last component of the destination is
\* missing.
C25_BadCopyfileFails ==
    [][cpTodo # << >> /\ cpTodo' = Tail(cpTodo) =>
          LET cp == Head(cpTodo)
          IN  \/ <<"p">> \o cp.Src \notin DOMAIN cpTree
              \/ cp.Dest \in DOMAIN cpTree
              \/ Len(cp.Dest) > 1 /\ Dir(cp.Dest) \notin DOMAIN cpTree
              => cpErr' # ""]_vars

\* After one copy was made, the mount failed for a destination in a
\* directory that does not exist.
C25_Witness ==
    /\ Len(cpDone) = 1
    /\ cpErr = "Copyfile: directory for dest does not exist"

CacheKey(host, comps) ==
    GitCacheDir \o <<"/">> \o host \o PathOf(comps) \o DotGit

\* The host of the URL as it is written, without its port.
WrittenHost(u) == IF u.bracket THEN <<"[", "v", "]">> ELSE <<"h">>

\* The components of a path as strings of characters.
CharComps(comps) == [i \in DOMAIN comps |-> << comps[i] >>]

RECURSIVE CharPathOf(_)
CharPathOf(comps) ==
    IF comps = << >> THEN << >>
    ELSE <<"/">> \o Head(comps) \o CharPathOf(Tail(comps))

C28_AddThenGet ==
    \A c \in TreeCallers :
        tcCalls[c].pc = "done" /\ ~tcCalls[c].err =>
            /\ TreeCacheGet(tcDir, tcCalls[c].id) =
                   [tree |-> tcCalls[c].tree, err |-> FALSE]
            /\ tcCalls[c].tree.ID # tcCalls[c].id =>
                   TreeCacheGet(tcDir, tcCalls[c].tree.ID) =
                       [tree |-> tcCalls[c].tree, err |-> FALSE]

\* The tree of the commit c2 was added, and a Get of the ID the tree
\* carries returned it.
C28_Witness ==
    /\ \E c \in TreeCallers :
           /\ tcCalls[c].pc = "done" /\ ~tcCalls[c].err
           /\ tcCalls[c].id = "c2"
    /\ tcGot = << [id |-> "t2", res |-> [tree |-> TreeT2, err |-> FALSE]] >>

(***************************************************************************)
(* Properties of readers that wait for a fetch, and of failed fetches.     *)
(***************************************************************************)

\* A reader that waited for a fetch never waits again in the same read: it
\* finds the blob in the CAS or starts a fetch itself.
WokenNeverWaitsAgain ==
    [][\A t \in Readers :
          pc[t] = "loop" /\ t \in hist.waited => pc'[t] # "wait"]_vars

\* Every read that waits for a fetch in flight returns.
WaitersReturn ==
    \A t \in Readers : (pc[t] = "wait") ~> (pc[t] = "done")

\* The end of a fetch, failed or not, removes the entry of the hash and
\* wakes every reader that waits on the root.
FinishWakes ==
    [][\A t \in Readers :
          pc[t] = "finish" /\ pc'[t] = "done" =>
             /\ rfile[t].id \notin fetching'[RootOf(t)]
             /\ \A w \in Readers :
                    pc[w] = "wait" /\ RootOf(w) = RootOf(t) =>
                       pc'[w] = "lock"]_vars

\* A reader that was woken and holds the lock again finds the blob in the
\* CAS, starts a fetch itself, or waits for a fetch started in between.
WokenOutcome ==
    [][\A t \in Readers :
          pc[t] = "loop" /\ t \in hist.waited /\ pc'[t] # pc[t] =>
             \/ /\ pc'[t] = "done" /\ rres'[t] = "ok"
                /\ rfile[t].id \in blob
             \/ /\ pc'[t] = "expensive"
                /\ rfile[t].id \notin fetching[RootOf(t)]
                /\ rfile[t].id \in fetching'[RootOf(t)]
             \/ /\ pc'[t] = "wait"
                /\ rfile[t].id \in fetching[RootOf(t)]]_vars

\* C29: every read that waits for a fetch in flight returns, given that the
\* expensive fetches terminate and the readers are scheduled; the end of
\* the fetch removes its entry and wakes the waiters whether it failed or
\* not, and a woken reader finds the blob in the CAS, starts a fetch itself
\* or waits again for a fetch that another reader started in between.
C29_WaitersReturn ==
    WaitersReturn /\ FinishWakes /\ WokenOutcome

\* C29 as claimed: every read that waits returns, and after it was woken
\* it finds the blob in the CAS or starts a fetch itself.
C29_WaitersReturnAfterOneWait ==
    WaitersReturn /\ FinishWakes /\ WokenNeverWaitsAgain

\* A reader that waited for a fetch that failed has returned with the
\* blob.
C29_Witness ==
    \E t \in hist.waited :
        /\ pc[t] = "done"
        /\ rres[t] = "ok"
        /\ rfile[t].id \in hist.err[RootOf(t)]

\* C30: a failed expensive fetch fails only the read that executed it: a
\* read gets an error only at a step of its own expensive fetch, and a
\* read whose own fetch did not fail returns without error, whatever
\* fetches of the blob failed before.
C30_FailureStaysWithFetcher ==
    [][\A t \in Readers :
          /\ rres'[t] = "err" /\ rres[t] # "err" =>
                 pc[t] \in {"getblob", "caswrite"} /\ pc'[t] = "relock"
          /\ pc[t] = "finish" /\ pc'[t] = "done" /\ rres[t] # "err" =>
                 rres'[t] = "ok"]_vars

\* One read failed in its fetch, and the read that waited for that fetch
\* returned with the blob.
C30_Witness ==
    \E t1, t2 \in Readers :
        /\ t1 # t2
        /\ rfile[t1] = rfile[t2]
        /\ pc[t1] = "done" /\ rres[t1] = "err"
        /\ t2 \in hist.waited
        /\ pc[t2] = "done" /\ rres[t2] = "ok"

(***************************************************************************)
(* Properties of the states of LazyRepo.                                   *)
(***************************************************************************)

\* The state of a LazyRepo, read from its fields: runClone clears the URL,
\* so a LazyRepo of a root with clone URL that has no URL, no repository
\* and no clone in progress is one whose clone failed.
LazyState(l, r) ==
    IF l[r].repo THEN "Ready"
    ELSE IF l[r].cloning THEN "Cloning"
    ELSE IF l[r].url = "" /\ RootURL[r] # "" THEN "Failed"
    ELSE "NotStarted"

\* The end of a clone leaves the LazyRepo Ready if the repository was
\* opened and Failed if it was not.
CloneEndSetsState ==
    [][\A r \in Roots :
          Len(runClones'[r]) < Len(runClones[r]) =>
             \E i \in DOMAIN runClones[r] :
                /\ runClones'[r] = RemoveAt(runClones[r], i)
                /\ LazyState(lazy', r) =
                      IF runClones[r][i] = "opened" THEN "Ready"
                      ELSE "Failed"]_vars

\* Repository() gives a repository exactly when the LazyRepo is Ready.
RepositoryIffReady ==
    [][\A t \in Readers :
          pc[t] = "expensive" /\ pc'[t] # pc[t] =>
             (pc'[t] = "localread" <=> LazyState(lazy, RootOf(t)) = "Ready")]_vars

\* Clone() on a LazyRepo in one of the given states starts a clone.
CloneStartsFrom(states) ==
    \A t \in Readers :
        pc[t] = "clone" /\ pc'[t] # pc[t]
        /\ LazyState(lazy, RootOf(t)) \in states =>
           /\ LazyState(lazy', RootOf(t)) = "Cloning"
           /\ Len(runClones'[RootOf(t)]) = Len(runClones[RootOf(t)]) + 1

\* Clone() on a LazyRepo in one of the given states does nothing.
CloneIgnoredIn(states) ==
    \A t \in Readers :
        pc[t] = "clone" /\ pc'[t] # pc[t]
        /\ LazyState(lazy, RootOf(t)) \in states =>
           UNCHANGED << lazy, runClones >>

\* C31 as claimed: Clone() on a LazyRepo that is NotStarted or Failed
\* moves it to Cloning and starts a clone; the end of the clone leaves it
\* Ready or Failed, and Repository() gives a repository exactly when Ready.
C31_CloneFromNotStartedOrFailed ==
    /\ [][CloneStartsFrom({"NotStarted", "Failed"})]_vars
    /\ CloneEndSetsState
    /\ RepositoryIffReady

\* C31: Clone() on a LazyRepo that is NotStarted moves it to Cloning and
\* starts a clone, and Clone() on one that is Failed, Cloning or Ready
\* changes nothing; the end of the clone leaves it Ready or Failed, and
\* Repository() gives a repository exactly when it is Ready.
C31_CloneFromNotStartedOnly ==
    /\ [][/\ CloneStartsFrom({"NotStarted"})
          /\ CloneIgnoredIn({"Failed", "Cloning", "Ready"})]_vars
    /\ CloneEndSetsState
    /\ RepositoryIffReady

\* A clone failed, and a Clone() call after it found the LazyRepo Failed.
C31_Witness ==
    \E r \in Roots :
        /\ r \in hist.refused
        /\ LazyState(lazy, r) = "Failed"
        /\ runClones[r] = << >>

(***************************************************************************)
(* Properties of the parallel traversals of Checkout.                      *)
(***************************************************************************)

\* The traversals that have not sent their result, and the goroutines of
\* repoTreeFromSlothFS that still read a tree.json.
StillRunning ==
    {x \in Traversals : ckTrav[x].pc # "done"}
        \cup {x \in SlothFSTraversals :
                 \E c \in TreeChildren : ckTrav[x].fills[c] = "running"}

\* C32: when Checkout has left the loop over its channel, with an error
\* or to go on, all three traversals have reported and none of their
\* goroutines is running.
C32_AllTraversalsReported ==
    ckMain.pc # "collect" => StillRunning = {}

(***************************************************************************)
(* Properties of the responses of the server.                              *)
(***************************************************************************)

\* C33: a tree is in the tree cache only if it came with a response that
\* keeps to the protocol, and a response that does not ends the mount with
\* an error: no tree with an entry of an unexpected type is cached, and
\* the mount does not end in a panic.
C33_ViolationsNotCached ==
    /\ \A c \in DOMAIN ftCache :
          ftCache[c] # NoTree => ftCache[c].types \subseteq {"blob", "commit"}
    /\ ftMount # "panic"

(***************************************************************************)
(* Properties of the locks.                                                *)
(***************************************************************************)

\* The positions of a reader at which it waits for the network, for the
\* disk write of the CAS or in fetchingCond.Wait, or is about to.
Suspended == ExpensivePhases \cup {"wait"}

\* The positions of runClone in which it runs cache.Open, with the
\* external `git clone`.
Cloning == {"start", "git"}

ConfigEntryExists(n) == ConfigReachable /\ n \in rnConfig

\* C35: while no command of config/ runs, config/<ws> exists exactly when
\* /<ws> exists, for every name a workspace was given.
C35_ConfigIffWorkspace ==
    RootQuiet =>
       \A n \in RootNames \ {"config"} :
           ConfigEntryExists(n) <=> rnRoot[n] # "none"

\* C36: the child of the root under the name config is the config
\* directory at all times, and no create command is about to attach its
\* workspace under a name at which the root has a workspace.
C36_ConfigStays ==
    /\ rnRoot["config"] = "configdir"
    /\ \A n \in RootNames :
          rnCmds[n].pc = "attach" => rnRoot[n] \notin {"workspace", "error"}

(***************************************************************************)
(* Properties of the reads through paths that must not clone.              *)
(***************************************************************************)

\* gitilesNode.Open on the node at path f of workspace n calls
\* n.root.openFile(n.id, n.clone): a read that has to fetch the blob calls
\* lazyRepo.Clone() of the root that made the node when the node has the
\* hint; a node has the hint only if that root has a clone URL.
ReadStartsClone(n, f) == nodes[rootCh[n][f].ref].clone

\* C37: a read through a path for which the options say not to clone
\* starts no clone, whichever paths share the node of the file.
C37_NoCloneThroughNoClonePath ==
    \A n \in Names :
        MountedOk(n) =>
            \A f \in ManifestFiles(cmds[n].bytes) :
                ~RuleClone(n, f) => ~ReadStartsClone(n, f)

(***************************************************************************)
(* Properties of a workspace while other workspaces come and go.           *)
(***************************************************************************)

\* The nodes of the files of workspace m.
NodesOf(m) ==
    {rootCh[m][f].ref : f \in {g \in DOMAIN rootCh[m] :
                                  rootCh[m][g].kind = "file"}}

Inside(p, c) == p # c /\ IsPrefix(NestedPaths[p], NestedPaths[c])

\* The position of a project in the order of attachment (0: not yet).
AttachedAt(proj) ==
    IF \E i \in DOMAIN nsMount.order : nsMount.order[i] = proj
    THEN CHOOSE i \in DOMAIN nsMount.order : nsMount.order[i] = proj
    ELSE 0

\* The files of project c that no project mounted inside c covers.
OwnFiles(c) ==
    {NestedPaths[c] \o NestedFiles[c][i] : i \in DOMAIN NestedFiles[c]}
        \ {q \in UNION {DOMAIN nsTree, {NestedPaths[c] \o NestedFiles[c][i] :
                                           i \in DOMAIN NestedFiles[c]}} :
              \E d \in nsManifest : Inside(c, d) /\ IsPrefix(NestedPaths[d], q)}

\* What is seen at the path of project c is the tree of c: its root, its
\* files, and below its path nothing of a project it is mounted inside.
ShowsOwnTree(c) ==
    /\ NestedPaths[c] \in DOMAIN nsTree
    /\ nsTree[NestedPaths[c]] = SubRootEntry(c)
    /\ \A f \in OwnFiles(c) :
          f \in DOMAIN nsTree /\ nsTree[f] = SubFileEntry(c)
    /\ \A q \in DOMAIN nsTree :
          IsPrefix(NestedPaths[c], q) /\ nsTree[q].data # "" =>
             nsTree[q].data = c \/ Inside(c, nsTree[q].data)

\* C39: a project is attached before every project mounted inside it, and
\* after the mount the tree at the path of each project mounted inside
\* another one is its own.
C39_ParentFirstChildVisible ==
    \A p \in nsManifest, c \in nsManifest :
        Inside(p, c) =>
           /\ AttachedAt(c) # 0 =>
                 AttachedAt(p) # 0 /\ AttachedAt(p) < AttachedAt(c)
           /\ nsMount.pc = "done" => ShowsOwnTree(c)

\* The manifest lists all projects and the mount is done: the directory
\* s of P, with a file, was replaced by the root of S.
C39_Witness ==
    /\ nsManifest = NestedProjects
    /\ nsMount.pc = "done"
    /\ <<"p", "s", "x">> \notin DOMAIN nsTree
    /\ nsTree[<<"p", "s", "b">>] = SubFileEntry("S")

(***************************************************************************)
(* Properties of the fallback from the local repository to GetBlob.        *)
(***************************************************************************)

\* The reads that ended after fetchFileExpensive found the LazyRepo Ready.
ReadyReads ==
    {t \in Readers : pc[t] = "done" /\ hist.exp[t].local # "none"}

\* When the repository did not deliver the blob, GetBlob was called.
FellBack ==
    \A t \in ReadyReads :
        hist.exp[t].local = "miss" => hist.exp[t].rest # "none"

\* C40 as stated: with the LazyRepo Ready and the blob not delivered by the
\* repository the fetch goes on to GetBlob, the read succeeds whenever
\* GetBlob succeeds, and a read fails only when both routes failed.
C40_FailsOnlyIfBothRoutesFail ==
    /\ FellBack
    /\ \A t \in ReadyReads :
          /\ hist.exp[t].rest = "ok" => rres[t] = "ok"
          /\ rres[t] = "err" =>
                hist.exp[t].local = "miss" /\ hist.exp[t].rest = "err"

\* C40 amended: with the LazyRepo Ready and the blob not delivered by the
\* repository the fetch goes on to GetBlob, the read succeeds whenever
\* GetBlob and the write to the CAS succeed, and a read fails only when
\* both routes failed or the write to the CAS failed.
C40_FailsOnlyIfRoutesOrCASFail ==
    /\ FellBack
    /\ \A t \in ReadyReads :
          /\ hist.exp[t].rest = "ok" /\ hist.exp[t].cas = "ok" =>
                rres[t] = "ok"
          /\ rres[t] = "err" =>
                \/ hist.exp[t].local = "miss" /\ hist.exp[t].rest = "err"
                \/ hist.exp[t].cas = "err"

\* A read found the repository without the blob, got the blob with GetBlob
\* and succeeded, and another read lost both routes.
C40_Witness ==
    /\ \E t \in ReadyReads :
          /\ hist.exp[t] = [local |-> "miss", rest |-> "ok", cas |-> "ok"]
          /\ rres[t] = "ok"
    /\ \E t \in ReadyReads :
          /\ hist.exp[t].local = "miss" /\ hist.exp[t].rest = "err"
          /\ rres[t] = "err"

====
